---- MODULE Spec2Model ----
(***************************************************************************)
(* A model of the request-execution core of the vintrace SDK:              *)
(*   - vintraceFetch (src/src/http/fetch.ts): one logical HTTP call with   *)
(*     timeout, retry with backoff, status classification and validation;  *)
(*   - VintraceClient.request, the resource clients' eager getAll and      *)
(*     getMany (VintraceClient.ts), batchFetch (client/utils.ts) and       *)
(*     batchGet (http/pagination.ts).                                      *)
(* One operation runs at a time (op); its inputs are drawn when it is      *)
(* called.  JavaScript's null is NullV, a present value v is Val(v), and   *)
(* an optional number is a sequence of length 0 (undefined) or 1.          *)
(***************************************************************************)
EXTENDS Integers, Sequences, FiniteSets, TLC

\* ------------------------------------------------------------------ bounds
\* largest maxRetries a client or a call is configured with
MaxRetriesBound == 2
\* largest parallelLimit / concurrency
MaxParallel == 2
\* largest number of ids handed to a batch operation
MaxIds == 3
\* largest totalCount a list endpoint reports
MaxTotal == 4
\* largest page size (limit) of an eager getAll
MaxLimit == 2
\* the pages a lazily paginated source holds at most, and the items of a page
MaxPages == 3
MaxPageItems == 2
\* the keys a parameter object has at most
MaxParams == 4

\* ------------------------------------------------------- program constants
DEFAULT_OPTIONS ==
  [timeout |-> 30000, maxRetries |-> 3, parallelLimit |-> 5,
   validateRequests |-> TRUE, validateResponses |-> TRUE]

\* --------------------------------------------------------------- values
NullV == [isNull |-> TRUE]
Val(v) == [isNull |-> FALSE, v |-> v]
IsNull(x) == x.isNull
Undefined == <<>>
Some(n) == <<n>>
IsDefined(o) == Len(o) > 0
\* JavaScript's a ?? b on an optional number
Coalesce(o, d) == IF IsDefined(o) THEN o[1] ELSE d

RECURSIVE Pow2(_)
Pow2(n) == IF n <= 0 THEN 1 ELSE 2 * Pow2(n - 1)

\* The statuses a server answers with in this model.
Statuses == {200, 204, 304, 400, 401, 403, 404, 408, 422, 429, 500, 501, 502, 503, 504}
\* fetch's Response.ok
ResponseOk(status) == status >= 200 /\ status <= 299

\* ------------------------------------------------------------ the errors
VintraceError(kind, message, status, retryAfter, body) ==
  [isNull |-> FALSE, kind |-> kind, message |-> message, status |-> status,
   retryAfter |-> retryAfter, body |-> body]

VintraceAuthenticationError(body) ==
  VintraceError("VintraceAuthenticationError", "Authentication failed", 401, Undefined, body)
VintraceRateLimitError(retryAfter, body) ==
  VintraceError("VintraceRateLimitError", "Rate limit exceeded", 429, retryAfter, body)
VintraceNotFoundError(body) ==
  VintraceError("VintraceNotFoundError", "Resource not found", 404, Undefined, body)
VintraceValidationError(status, body) ==
  VintraceError("VintraceValidationError", "Request validation failed", status, Undefined, body)
VintraceServerError(status, body) ==
  VintraceError("VintraceServerError", "Server error", status, Undefined, body)
VintraceFetchError(message) ==
  VintraceError("VintraceFetchError", message, 0, Undefined, "undefined")
VintraceValidationSchemaError ==
  VintraceError("VintraceValidationSchemaError", "issues", 422, Undefined, "undefined")

\* (mutant) 504 is missing from the retryable statuses
isRetryableStatus_No504(status) == status \in {408, 429, 500, 502, 503}

isRetryableStatus(status) == status \in {408, 429, 500, 502, 503, 504}

\* ------------------------------------------------- the retry-after header
\* A header value is a sequence of characters; parseInt(value, 10) skips
\* leading blanks, reads an optional sign and the longest run of digits, and
\* is NaN when there is no digit.
Digits == <<"0", "1", "2", "3", "4", "5", "6", "7", "8", "9">>
IsDigit(c) == \E d \in 1..10 : Digits[d] = c
DigitVal(c) == (CHOOSE d \in 1..10 : Digits[d] = c) - 1
NaN == <<>>

RECURSIVE SkipBlanks(_)
SkipBlanks(s) == IF s # <<>> /\ Head(s) = " " THEN SkipBlanks(Tail(s)) ELSE s

RECURSIVE ReadDigits(_, _)
ReadDigits(s, acc) ==
  IF s # <<>> /\ IsDigit(Head(s))
    THEN ReadDigits(Tail(s), acc * 10 + DigitVal(Head(s)))
    ELSE acc

parseInt(str) ==
  LET s == SkipBlanks(str)
      neg == s # <<>> /\ Head(s) = "-"
      t == IF s # <<>> /\ Head(s) \in {"-", "+"} THEN Tail(s) ELSE s
  IN IF t = <<>> \/ ~IsDigit(Head(t)) THEN NaN
     ELSE Some(IF neg THEN 0 - ReadDigits(t, 0) ELSE ReadDigits(t, 0))

\* headers.get('retry-after'): NullV when the header is absent.
NoHeader == [isNull |-> TRUE]
RetryAfterHeaders ==
  {NoHeader, Val(<<>>), Val(<<"x">>), Val(<<"0">>), Val(<<"3">>), Val(<<" ", "3", "s">>)}

\* (mutant) an absent or unusable header gives a delay of one
getRetryAfterFromHeaders_Derived(retryAfter) ==
  IF ~IsNull(retryAfter) /\ retryAfter.v # <<>> /\ parseInt(retryAfter.v) # NaN
    THEN parseInt(retryAfter.v)
    ELSE Some(1)

getRetryAfterFromHeaders(retryAfter) ==
  IF ~IsNull(retryAfter) /\ retryAfter.v # <<>>
    THEN LET parsed == parseInt(retryAfter.v)
         IN IF parsed = NaN THEN Undefined ELSE parsed
    ELSE Undefined

\* ------------------------------------------------------- the validation
\* A schema is an opaque validator: parse returns the validated value, throws
\* a ZodError, or throws something else.
ParseOutcomes == {"ok", "ZodError", "OtherError"}
Validated(data) == IF IsNull(data) THEN NullV ELSE Val("validated")

\* (mutant) the data is passed on without consulting the schema
validateResponse_PassThrough(parse, data) == <<data, NullV>>

validateResponse(parse, data) ==
  IF parse = "ok" THEN <<Validated(data), NullV>>
  ELSE IF parse = "ZodError" THEN <<NullV, VintraceValidationSchemaError>>
  ELSE <<NullV, VintraceError("VintraceError", "Response validation failed", 500,
                              Undefined, "undefined")>>

validateRequest(parse, data) ==
  IF parse = "ok" THEN <<Validated(data), NullV>>
  ELSE IF parse = "ZodError" THEN <<NullV, VintraceValidationSchemaError>>
  ELSE <<NullV, VintraceError("VintraceError", "Request validation failed", 500,
                              Undefined, "undefined")>>

\* ------------------------------------------------- vintraceFetch's steps
\* What a step of the retry loop ends in.
Return(result) == [act |-> "return", result |-> result]
Retry(delay) == [act |-> "retry", delay |-> delay]
Throw(e) == [act |-> "throw", e |-> e]

\* A thrown value: an Error named name, or a value that is no Error.
Thrown(isError, name, message) ==
  [isVintrace |-> FALSE, isError |-> isError, name |-> name, message |-> message]

\* (mutant) the 4xx range is tested before the specific statuses
Classify_RangeFirst(status, retryAfter, body) ==
  IF status >= 400 /\ status < 500 THEN VintraceValidationError(status, body)
  ELSE IF status >= 500 THEN VintraceServerError(status, body)
  ELSE VintraceError("VintraceError", "Request failed with status", status, Undefined, body)

\* The error a non-2xx response is classified as (first match).
Classify(status, retryAfter, body) ==
  IF status = 401 THEN VintraceAuthenticationError(body)
  ELSE IF status = 404 THEN VintraceNotFoundError(body)
  ELSE IF status = 429 THEN VintraceRateLimitError(retryAfter, body)
  ELSE IF status >= 400 /\ status < 500 THEN VintraceValidationError(status, body)
  ELSE IF status >= 500 THEN VintraceServerError(status, body)
  ELSE VintraceError("VintraceError", "Request failed with status", status, Undefined, body)

\* (mutant) the loop stops one attempt early
CanAttempt_OffByOne(attempt, maxRetries) == attempt < maxRetries

\* The condition of the retry loop.
CanAttempt(attempt, maxRetries) == attempt <= maxRetries

\* (mutant) the same wait after every attempt
Backoff_Constant(attempt) == Pow2(0) * 1000

\* The exponential backoff after the attempt with this index, in ms.
Backoff(attempt) == Pow2(attempt) * 1000

\* (mutant) every error response is retried while attempts remain
AfterError_RetryAny(error, attempt, maxRetries) ==
  IF attempt < maxRetries
    THEN Retry(IF error.kind = "VintraceRateLimitError"
                 THEN Coalesce(error.retryAfter, Backoff(attempt))
                 ELSE Backoff(attempt))
    ELSE Return(<<NullV, error>>)

\* (mutant) the timer of a settled attempt stays armed
clearTimeout_Leak(armed, timeoutId) == armed

\* clearTimeout(timeoutId): the attempt's timer is armed no longer.
clearTimeout(armed, timeoutId) == armed \ {timeoutId}

\* (mutant) a retryable response is retried on the last attempt as well
AfterError_RetryOnLast(error, attempt, maxRetries) ==
  IF error.kind = "VintraceRateLimitError"
    THEN Retry(Coalesce(error.retryAfter, Backoff(attempt)))
  ELSE IF error.kind = "VintraceAuthenticationError" THEN Return(<<NullV, error>>)
  ELSE IF isRetryableStatus(error.status) THEN Retry(Backoff(attempt))
  ELSE Return(<<NullV, error>>)

\* What follows the classification of a non-2xx response.
AfterError(error, attempt, maxRetries) ==
  IF error.kind = "VintraceRateLimitError" /\ attempt < maxRetries
    THEN Retry(Coalesce(error.retryAfter, Backoff(attempt)))
  ELSE IF error.kind = "VintraceAuthenticationError" THEN Return(<<NullV, error>>)
  ELSE IF isRetryableStatus(error.status) /\ attempt < maxRetries
    THEN Retry(Backoff(attempt))
  ELSE Return(<<NullV, error>>)

\* The body of a non-2xx response, read best-effort.
ResponseBody(contentTypeJson, readable) ==
  IF ~readable THEN "undefined" ELSE IF contentTypeJson THEN "json" ELSE "text"

\* A 2xx response: 204 has no content, any other is parsed and validated.
\* reads and validations count the calls of response.json() and of
\* validateResponse.
Handled(out, reads, validations) ==
  [out |-> out, reads |-> reads, validations |-> validations]

\* (mutant) a 204 is parsed like any other 2xx response
OnSuccess_No204(status, json, validate, parse) ==
  IF json = "SyntaxError"
    THEN Handled(Throw(Thrown(TRUE, "SyntaxError", "Unexpected token")), 1, 0)
  ELSE LET data == IF json = "null" THEN NullV ELSE Val(json)
       IN IF validate
            THEN LET v == validateResponse(parse, data)
                 IN IF ~IsNull(v[2]) THEN Handled(Return(<<NullV, v[2]>>), 1, 1)
                    ELSE Handled(Return(<<v[1], NullV>>), 1, 1)
            ELSE Handled(Return(<<data, NullV>>), 1, 0)

OnSuccess(status, json, validate, parse) ==
  IF status = 204 THEN Handled(Return(<<NullV, NullV>>), 0, 0)
  ELSE IF json = "SyntaxError"
    THEN Handled(Throw(Thrown(TRUE, "SyntaxError", "Unexpected token")), 1, 0)
  ELSE LET data == IF json = "null" THEN NullV ELSE Val(json)
       IN IF validate
            THEN LET v == validateResponse(parse, data)
                 IN IF ~IsNull(v[2]) THEN Handled(Return(<<NullV, v[2]>>), 1, 1)
                    ELSE Handled(Return(<<v[1], NullV>>), 1, 1)
            ELSE Handled(Return(<<data, NullV>>), 1, 0)

\* (mutant) an abort is handled like any other failure of the fetch
InnerCatch_NoAbort(e, attempt, maxRetries) ==
  IF e.isVintrace THEN Throw(e)
  ELSE IF e.isError THEN Return(<<NullV, VintraceFetchError(e.message)>>)
  ELSE Return(<<NullV, VintraceFetchError("Unknown error")>>)

\* (mutant) a failure of the fetch is retried like a timeout
InnerCatch_RetryFailure(e, attempt, maxRetries) ==
  IF e.isVintrace THEN Throw(e)
  ELSE IF attempt < maxRetries THEN Retry(Backoff(attempt))
  ELSE Return(<<NullV, VintraceFetchError(IF e.isError THEN e.message ELSE "Unknown error")>>)

\* (mutant) a timeout is retried whatever the attempt index
InnerCatch_AlwaysRetryAbort(e, attempt, maxRetries) ==
  IF e.isVintrace THEN Throw(e)
  ELSE IF e.isError
    THEN IF e.name = "AbortError" THEN Retry(Backoff(attempt))
         ELSE Return(<<NullV, VintraceFetchError(e.message)>>)
    ELSE Return(<<NullV, VintraceFetchError("Unknown error")>>)

\* The catch of one attempt.
InnerCatch(e, attempt, maxRetries) ==
  IF e.isVintrace THEN Throw(e)
  ELSE IF e.isError
    THEN IF e.name = "AbortError"
           THEN IF attempt < maxRetries
                  THEN Retry(Backoff(attempt))
                  ELSE Return(<<NullV, VintraceError("VintraceError", "Request timeout",
                                                     408, Undefined, "undefined")>>)
           ELSE Return(<<NullV, VintraceFetchError(e.message)>>)
    ELSE Return(<<NullV, VintraceFetchError("Unknown error")>>)

\* The catch around the retry loop.
OuterCatch(e) ==
  IF e.isVintrace THEN Return(<<NullV, e.error>>)
  ELSE Return(<<NullV, VintraceFetchError(IF e.isError THEN e.message ELSE "Unknown error")>>)

\* ------------------------------------------------------------------ state
VARIABLES
  options,     \* the options of the client the operation runs on, defaults applied
  op,          \* the operation that was called, "none" before any call
  call,        \* the options and body vintraceFetch runs with
  pc,          \* where the vintraceFetch call is
  attempt,     \* the retry loop's index
  history,     \* the outcome of every network attempt so far, in order
  delays,      \* the timer delay (ms) waited after each retried attempt
  timers,      \* the attempts whose timeout timer is armed
  inFlight,    \* the attempts whose fetch is in flight
  bodyReads,   \* how often a response body was read (json() or text())
  validations, \* how often validateResponse ran
  batch,       \* the inputs of the batch or getAll operation
  reqs,        \* its per-key (per-page) requests: idle, pending or settled
  cursor,      \* its loop index i
  acc,         \* the items it has collected
  errs,        \* the errors it has collected
  order,       \* the requests in the order they settled
  result,      \* the [data, error] tuple the operation returned
  promise      \* the state of the promise the operation returned

fetchVars == <<call, attempt, history, delays, timers, inFlight, bodyReads, validations>>
batchVars == <<batch, reqs, cursor, acc, errs, order>>
vars == <<options, op, call, pc, attempt, history, delays, timers, inFlight, bodyReads,
          validations, batch, reqs, cursor, acc, errs, order, result, promise>>

NoCall == [maxRetries |-> 0]
NoResult == <<NullV, NullV>>
NoBatch == [fn |-> "none"]

\* new VintraceClient(config): the defaults overridden by config.options, whose
\* absent entries are Undefined.
VintraceClient(o) ==
  [timeout |-> Coalesce(o.timeout, DEFAULT_OPTIONS.timeout),
   maxRetries |-> Coalesce(o.maxRetries, DEFAULT_OPTIONS.maxRetries),
   parallelLimit |-> Coalesce(o.parallelLimit, DEFAULT_OPTIONS.parallelLimit),
   validateRequests |-> Coalesce(o.validateRequests, DEFAULT_OPTIONS.validateRequests),
   validateResponses |-> Coalesce(o.validateResponses, DEFAULT_OPTIONS.validateResponses)]

\* The config.options of the clients that issue single requests.
RequestClients ==
  {c \in [timeout : {Undefined},
          maxRetries : {Some(n) : n \in 0..MaxRetriesBound},
          parallelLimit : {Undefined},
          validateRequests : {Undefined, Some(FALSE)},
          validateResponses : {Undefined, Some(FALSE)}] :
     c.validateRequests = c.validateResponses}

Init ==
  /\ options = DEFAULT_OPTIONS
  /\ op = "none"
  /\ call = NoCall
  /\ pc = "idle"
  /\ attempt = 0
  /\ history = <<>>
  /\ delays = <<>>
  /\ timers = {}
  /\ inFlight = {}
  /\ bodyReads = 0
  /\ validations = 0
  /\ batch = NoBatch
  /\ reqs = <<>>
  /\ cursor = 0
  /\ acc = <<>>
  /\ errs = <<>>
  /\ order = <<>>
  /\ result = NoResult
  /\ promise = "none"

\* ---------------------------------------------------------- vintraceFetch
\* The HTTP methods, one of each kind: GET (like DELETE) carries no body, POST
\* (like PUT and PATCH) carries one.
Methods == {"GET", "POST"}
isBodylessMethod(method) == method = "GET" \/ method = "DELETE"

\* (mutant) the body given by the caller is sent, not the parsed one
SentBody_Raw(method, body) ==
  IF isBodylessMethod(method) \/ body = "undefined" THEN "undefined" ELSE "raw"

\* The body of the fetch init (line 103): none for a bodyless method, else the
\* JSON of the body variable, which is the parsed body after a validation.
SentBody(method, body) ==
  IF isBodylessMethod(method) THEN "undefined" ELSE body

\* The query string (lines 64-73), serialised from the body the caller gave
\* before any validation.
QueryString(method, body) ==
  IF isBodylessMethod(method) /\ body THEN "raw" ELSE "none"

\* generateCorrelationId: a random v4-UUID-shaped token, taken to differ from
\* every token generated before; the n-th token of a call is n.
generateCorrelationId(generated) == generated + 1

\* (mutant) a token of its own for every attempt
HeaderCorrelationId_PerAttempt(correlationId, n) == correlationId + n

\* The correlation-id header of an attempt: the headers object is built once,
\* before the loop (lines 75-80), and handed to every fetch (line 102).
HeaderCorrelationId(correlationId, n) == correlationId

\* The history keeps the retry-after header of the 429 response a call ended
\* on, and of no other response.
Unrecorded == [isNull |-> FALSE, unrecorded |-> TRUE]

\* Lines 57-92: the options' defaults, the URL, then the request validation; a
\* body the schema rejects ends the call before any network attempt.
vintraceFetch(via, method, o, body, parse) ==
  /\ op' = "vintraceFetch"
  /\ attempt' = 0
  /\ UNCHANGED <<history, delays, timers, inFlight, bodyReads, validations, batchVars>>
  /\ LET validates == o.validateRequest /\ o.requestSchema /\ body
         validated == IF validates THEN validateRequest(parse, Val("raw"))
                      ELSE <<NullV, NullV>>
         c == [via |-> via, timeout |-> o.timeout, maxRetries |-> o.maxRetries,
               validateResponse |-> o.validateResponse, responseSchema |-> o.responseSchema,
               method |-> method,
               correlationId |-> generateCorrelationId(0),
               query |-> QueryString(method, body),
               parsed |-> IF validates THEN parse ELSE "none",
               body |-> IF ~body THEN "undefined"
                        ELSE IF ~validates THEN "raw"
                        ELSE IF IsNull(validated[1]) THEN "undefined"
                        ELSE validated[1].v]
     IN /\ call' = c
        /\ IF ~IsNull(validated[2])
             THEN /\ pc' = "done"
                  /\ result' = <<NullV, validated[2]>>
                  /\ promise' = "fulfilled"
             ELSE /\ pc' = "loop"
                  /\ promise' = "pending"
                  /\ UNCHANGED result

\* A direct call of vintraceFetch with its options given.
RequestOptions ==
  [timeout : {DEFAULT_OPTIONS.timeout},
   maxRetries : (0 - 1)..MaxRetriesBound,
   validateRequest : BOOLEAN, requestSchema : BOOLEAN,
   validateResponse : BOOLEAN, responseSchema : BOOLEAN]

FetchCall ==
  /\ op = "none"
  /\ \E method \in Methods, o \in RequestOptions, body \in BOOLEAN, parse \in ParseOutcomes :
       vintraceFetch([by |-> "direct",
                      responseSchema |-> o.responseSchema,
                      requestVerdict |-> IF o.validateRequest /\ o.requestSchema /\ body
                                           THEN parse ELSE "none"],
                     method, o, body, parse)
  /\ UNCHANGED options

\* VintraceClient.request: the call's options fall back to the client's; the
\* object handed to vintraceFetch holds timeout, maxRetries, validateRequest
\* and validateResponse only.
request(client, method, o, body, parse) ==
  vintraceFetch([by |-> "client",
                 responseSchema |-> o.responseSchema,
                 requestVerdict |-> IF client.validateRequests /\ o.requestSchema /\ body
                                      THEN parse ELSE "none"],
                method,
    [timeout |-> client.timeout,
     maxRetries |-> Coalesce(o.maxRetries, client.maxRetries),
     validateRequest |-> client.validateRequests,
     validateResponse |-> client.validateResponses,
     requestSchema |-> FALSE,
     responseSchema |-> FALSE],
    body, parse)

\* The schemas the methods of the resource clients put in the options of
\* request: none, a responseSchema, or (with a method that sends a body) a
\* responseSchema and a requestSchema.
SuppliedSchemas(method) ==
  {s \in {[requestSchema |-> FALSE, responseSchema |-> FALSE],
          [requestSchema |-> FALSE, responseSchema |-> TRUE],
          [requestSchema |-> TRUE, responseSchema |-> TRUE]} :
     s.requestSchema => ~isBodylessMethod(method)}

\* A request on a newly constructed client; a resource client hands request
\* its schemas in the call's options.
ClientRequest ==
  /\ op = "none"
  /\ \E config \in RequestClients, method \in Methods, mr \in {Undefined, Some(0)},
        body \in BOOLEAN, parse \in ParseOutcomes :
     \E schemas \in SuppliedSchemas(method) :
       /\ options' = VintraceClient(config)
       /\ request(options', method,
                  [maxRetries |-> mr, requestSchema |-> schemas.requestSchema,
                   responseSchema |-> schemas.responseSchema],
                  body, parse)

\* (mutant) a retry goes back to the head of the loop without the wait
Settle_NoWait(out) ==
  LET final == IF out.act = "throw" THEN OuterCatch(out.e) ELSE out
  IN IF final.act = "retry"
       THEN /\ pc' = "loop"
            /\ delays' = Append(delays, final.delay)
            /\ UNCHANGED <<result, promise>>
     ELSE /\ pc' = "done"
          /\ promise' = IF final.act = "return" THEN "fulfilled" ELSE "rejected"
          /\ result' = IF final.act = "return" THEN final.result ELSE result
          /\ UNCHANGED delays

\* How a step of the loop ends: a backoff wait, the returned tuple, or an
\* exception, which the catch around the loop turns into a tuple.
Settle(out) ==
  LET final == IF out.act = "throw" THEN OuterCatch(out.e) ELSE out
  IN IF final.act = "retry"
       THEN /\ pc' = "waiting"
            /\ delays' = Append(delays, final.delay)
            /\ UNCHANGED <<result, promise>>
     ELSE IF final.act = "return"
       THEN /\ pc' = "done"
            /\ result' = final.result
            /\ promise' = "fulfilled"
            /\ UNCHANGED delays
     ELSE /\ pc' = "done"
          /\ promise' = "rejected"
          /\ UNCHANGED <<delays, result>>

\* The head of the retry loop: another attempt (its timer armed, its fetch
\* issued) while attempt <= maxRetries, else the fallback after the loop.
LoopHead ==
  /\ op = "vintraceFetch" /\ pc = "loop"
  /\ UNCHANGED <<options, op, call, attempt, history, bodyReads, validations, batchVars>>
  /\ IF CanAttempt(attempt, call.maxRetries)
       THEN /\ pc' = "fetching"
            /\ timers' = timers \cup {attempt}
            /\ inFlight' = inFlight \cup {attempt}
            /\ UNCHANGED <<delays, result, promise>>
       ELSE /\ UNCHANGED <<timers, inFlight>>
            /\ Settle(Return(<<NullV, VintraceError("VintraceError", "Max retries exceeded",
                                                    0, Undefined, "undefined")>>))

\* The fetch resolves with a non-2xx response: the timer is cleared, the body
\* is read best-effort, the status is classified.
ResponseError ==
  /\ op = "vintraceFetch" /\ pc = "fetching"
  /\ \E status \in Statuses, header \in RetryAfterHeaders, json \in BOOLEAN, readable \in BOOLEAN :
       /\ ~ResponseOk(status)
       /\ LET retryAfter == getRetryAfterFromHeaders(header)
              error == Classify(status, retryAfter, ResponseBody(json, readable))
          IN /\ history' = Append(history,
                  [kind |-> "response", status |-> status, retryAfter |-> error.retryAfter,
                   json |-> "unread", parse |-> "none",
                   sent |-> SentBody(call.method, call.body),
                   correlationId |-> HeaderCorrelationId(call.correlationId, attempt),
                   verdict |-> "none", thrown |-> "none",
                   endHeader |-> IF /\ status = 429
                                      /\ AfterError(error, attempt, call.maxRetries).act
                                           = "return"
                                   THEN header ELSE Unrecorded])
             /\ Settle(AfterError(error, attempt, call.maxRetries))
  /\ timers' = clearTimeout(timers, attempt)
  /\ inFlight' = inFlight \ {attempt}
  /\ bodyReads' = bodyReads + 1
  /\ UNCHANGED <<options, op, call, attempt, validations, batchVars>>

\* The fetch resolves with a 2xx response.
ResponseSuccess ==
  /\ op = "vintraceFetch" /\ pc = "fetching"
  /\ \E status \in Statuses, json \in {"null", "data", "SyntaxError"}, parse \in ParseOutcomes :
       /\ ResponseOk(status)
       /\ LET validate == call.validateResponse /\ call.responseSchema
              h == OnSuccess(status, json, validate, parse)
          IN /\ history' = Append(history,
                  [kind |-> "response", status |-> status, retryAfter |-> Undefined,
                   json |-> IF h.reads = 0 THEN "unread" ELSE json,
                   parse |-> IF h.validations = 0 THEN "none" ELSE parse,
                   sent |-> SentBody(call.method, call.body),
                   correlationId |-> HeaderCorrelationId(call.correlationId, attempt),
                   verdict |-> IF /\ call.validateResponse /\ call.via.responseSchema
                                  /\ h.reads = 1 /\ json # "SyntaxError"
                                 THEN parse ELSE "none",
                   thrown |-> "none", endHeader |-> Unrecorded])
             /\ bodyReads' = bodyReads + h.reads
             /\ validations' = validations + h.validations
             /\ Settle(IF h.out.act = "throw"
                         THEN InnerCatch(h.out.e, attempt, call.maxRetries)
                         ELSE h.out)
  /\ timers' = clearTimeout(timers, attempt)
  /\ inFlight' = inFlight \ {attempt}
  /\ UNCHANGED <<options, op, call, attempt, batchVars>>

\* The timeout timer fires before a response: the controller aborts the fetch,
\* which rejects with an AbortError.
FetchAbort ==
  /\ op = "vintraceFetch" /\ pc = "fetching" /\ attempt \in timers
  /\ history' = Append(history, [kind |-> "abort", status |-> 0, retryAfter |-> Undefined,
                                 json |-> "unread", parse |-> "none",
                                 sent |-> SentBody(call.method, call.body),
                                 correlationId |->
                                   HeaderCorrelationId(call.correlationId, attempt),
                                 verdict |-> "none", thrown |-> "AbortError",
                                 endHeader |-> Unrecorded])
  /\ timers' = clearTimeout(timers, attempt)
  /\ inFlight' = inFlight \ {attempt}
  /\ Settle(InnerCatch(Thrown(TRUE, "AbortError", "This operation was aborted"),
                       attempt, call.maxRetries))
  /\ UNCHANGED <<options, op, call, attempt, bodyReads, validations, batchVars>>

\* The fetch rejects for another reason: a network failure (an Error) or a
\* thrown value that is no Error.
FetchFailure ==
  /\ op = "vintraceFetch" /\ pc = "fetching"
  /\ \E isError \in BOOLEAN :
       /\ history' = Append(history,
            [kind |-> "failure", status |-> 0, retryAfter |-> Undefined,
             json |-> "unread", parse |-> "none",
             sent |-> SentBody(call.method, call.body),
             correlationId |-> HeaderCorrelationId(call.correlationId, attempt),
             verdict |-> "none",
             thrown |-> IF isError THEN "fetch failed" ELSE "not an Error",
             endHeader |-> Unrecorded])
       /\ Settle(InnerCatch(Thrown(isError, "TypeError", "fetch failed"),
                            attempt, call.maxRetries))
  /\ timers' = clearTimeout(timers, attempt)
  /\ inFlight' = inFlight \ {attempt}
  /\ UNCHANGED <<options, op, call, attempt, bodyReads, validations, batchVars>>

\* The backoff timer fires: the loop continues with the next attempt.
BackoffElapsed ==
  /\ op = "vintraceFetch" /\ pc = "waiting"
  /\ pc' = "loop"
  /\ attempt' = attempt + 1
  /\ UNCHANGED <<options, op, call, history, delays, timers, inFlight, bodyReads,
                 validations, batchVars, result, promise>>

\* The standalone validation adapters.
ValidateCall ==
  /\ op = "none"
  /\ \E fn \in {"validateRequest", "validateResponse"}, parse \in ParseOutcomes,
        data \in {NullV, Val("data")} :
       /\ op' = fn
       /\ result' = IF fn = "validateRequest" THEN validateRequest(parse, data)
                    ELSE validateResponse(parse, data)
  /\ pc' = "done"
  /\ UNCHANGED <<options, call, attempt, history, delays, timers, inFlight, bodyReads,
                 validations, batchVars, promise>>

\* ------------------------------------------------------- batch operations
\* The error e with the correlationId it was constructed with: the value of
\* the response's correlation-id header, or none.
WithCorrelationId(e, correlationId) ==
  [isNull |-> e.isNull, kind |-> e.kind, message |-> e.message, status |-> e.status,
   retryAfter |-> e.retryAfter, body |-> e.body, correlationId |-> correlationId]

\* (mutant) status and correlationId are taken from the last child
VintraceAggregateError_LastChild(errors) ==
  [isNull |-> FALSE, kind |-> "VintraceAggregateError",
   message |-> IF Len(errors) = 1 THEN errors[1].message ELSE "errors occurred",
   status |-> IF Len(errors) > 0 THEN errors[Len(errors)].status ELSE 0,
   correlationId |-> IF Len(errors) > 0 THEN errors[Len(errors)].correlationId
                     ELSE Undefined,
   retryAfter |-> Undefined, body |-> "bodies", errors |-> errors]

VintraceAggregateError(errors) ==
  [isNull |-> FALSE, kind |-> "VintraceAggregateError",
   message |-> IF Len(errors) = 1 THEN errors[1].message ELSE "errors occurred",
   status |-> IF Len(errors) > 0 THEN errors[1].status ELSE 0,
   correlationId |-> IF Len(errors) > 0 THEN errors[1].correlationId ELSE Undefined,
   retryAfter |-> Undefined, body |-> "bodies", errors |-> errors]

\* A promise: not yet created, pending, fulfilled with a value, or rejected.
Idle == [st |-> "idle"]
Pending == [st |-> "pending"]
Fulfilled(value) == [st |-> "fulfilled", value |-> value]
Rejected(reason) == [st |-> "rejected", reason |-> reason]
IsSettled(r) == r.st \in {"fulfilled", "rejected"}

\* (mutant) Promise.all in the place of Promise.allSettled
allSettled_AsAll(rs) ==
  IF \E k \in 1..Len(rs) : rs[k].st = "rejected" THEN Rejected(NullV)
  ELSE IF \A k \in 1..Len(rs) : rs[k].st = "fulfilled" THEN Fulfilled(rs)
  ELSE Pending

\* (mutant) the outcomes are listed in the order they arrived
allSettled_CompletionOrder(rs) ==
  IF \A k \in 1..Len(rs) : IsSettled(rs[k])
    THEN Fulfilled([j \in 1..Len(rs) |-> reqs[order[Len(order) - Len(rs) + j]]])
    ELSE Pending

\* Promise.allSettled: fulfilled with every outcome once all have settled.
allSettled(rs) ==
  IF \A k \in 1..Len(rs) : IsSettled(rs[k]) THEN Fulfilled(rs) ELSE Pending

\* (mutant) Promise.all that lists the values in the order they arrived
PromiseAll_CompletionOrder(rs) ==
  IF \E k \in 1..Len(rs) : rs[k].st = "rejected" THEN Rejected(NullV)
  ELSE IF \A k \in 1..Len(rs) : rs[k].st = "fulfilled"
    THEN Fulfilled([j \in 1..Len(rs) |-> reqs[order[Len(order) - Len(rs) + j]]])
  ELSE Pending

\* Promise.all: rejected once one is rejected, fulfilled once all are fulfilled.
PromiseAll(rs) ==
  IF \E k \in 1..Len(rs) : rs[k].st = "rejected" THEN Rejected(NullV)
  ELSE IF \A k \in 1..Len(rs) : rs[k].st = "fulfilled" THEN Fulfilled(rs)
  ELSE Pending

\* What a per-key fetch ends in: an item, no content, an error tuple (of a
\* response with a correlation-id header, the key standing for its value, or
\* of one without), or a rejection whose reason has a message or none.
KeyOutcomes(k) ==
  {Fulfilled(<<Val(k), NullV>>),
   Fulfilled(<<NullV, NullV>>),
   Fulfilled(<<NullV, WithCorrelationId(VintraceNotFoundError("undefined"), Some(k))>>),
   Fulfilled(<<NullV, WithCorrelationId(VintraceServerError(500, "undefined"), Undefined)>>),
   Rejected(Val("boom")),
   Rejected(NullV)}

\* (mutant) only the first error of the outcomes is recorded
RECURSIVE Gather_FirstErrorOnly(_, _)
Gather_FirstErrorOnly(results, lists) ==
  IF results = <<>> THEN lists
  ELSE LET r == Head(results)
           next ==
             IF r.st = "fulfilled"
               THEN IF ~IsNull(r.value[2])
                      THEN IF Len(lists.errors) = 0
                             THEN [lists EXCEPT !.errors = Append(@, r.value[2])]
                             ELSE lists
                    ELSE IF ~IsNull(r.value[1])
                      THEN [lists EXCEPT !.data = Append(@, r.value[1].v)]
                    ELSE lists
               ELSE IF Len(lists.errors) = 0
                 THEN [lists EXCEPT !.errors = Append(@,
                         WithCorrelationId(
                           VintraceError("VintraceError",
                                         IF IsNull(r.reason) THEN "Unknown error"
                                         ELSE r.reason.v,
                                         0, Undefined, "undefined"),
                           Undefined))]
                 ELSE lists
       IN Gather_FirstErrorOnly(Tail(results), next)

\* (mutant) a rejected fetch contributes nothing
RECURSIVE Gather_DropRejections(_, _)
Gather_DropRejections(results, lists) ==
  IF results = <<>> THEN lists
  ELSE LET r == Head(results)
           next ==
             IF r.st = "fulfilled"
               THEN IF ~IsNull(r.value[2])
                      THEN [lists EXCEPT !.errors = Append(@, r.value[2])]
                    ELSE IF ~IsNull(r.value[1])
                      THEN [lists EXCEPT !.data = Append(@, r.value[1].v)]
                    ELSE lists
               ELSE lists
       IN Gather_DropRejections(Tail(results), next)

\* The loop over the settled outcomes, in their order in the list.
RECURSIVE Gather(_, _)
Gather(results, lists) ==
  IF results = <<>> THEN lists
  ELSE LET r == Head(results)
           next ==
             IF r.st = "fulfilled"
               THEN IF ~IsNull(r.value[2])
                      THEN [lists EXCEPT !.errors = Append(@, r.value[2])]
                    ELSE IF ~IsNull(r.value[1])
                      THEN [lists EXCEPT !.data = Append(@, r.value[1].v)]
                    ELSE lists
               ELSE [lists EXCEPT !.errors = Append(@,
                       WithCorrelationId(
                         VintraceError("VintraceError",
                                       IF IsNull(r.reason) THEN "Unknown error"
                                       ELSE r.reason.v,
                                       0, Undefined, "undefined"),
                         Undefined))]
       IN Gather(Tail(results), next)

\* (mutant) the collected items are returned beside the aggregate error
BatchResult_Partial(lists) ==
  IF Len(lists.errors) > 0
    THEN <<Val(lists.data), VintraceAggregateError(lists.errors)>>
    ELSE <<Val(lists.data), NullV>>

\* The tuple a batch returns from its two lists.
BatchResult(lists) ==
  IF Len(lists.errors) > 0
    THEN <<NullV, VintraceAggregateError(lists.errors)>>
    ELSE <<Val(lists.data), NullV>>

\* (mutant) every request from the first of the slice on is issued
Issue_ToEnd(rs, from, to) ==
  [k \in 1..Len(rs) |-> IF k >= from THEN Pending ELSE rs[k]]

\* rs with the requests from..to issued.
Issue(rs, from, to) ==
  [k \in 1..Len(rs) |-> IF k >= from /\ k <= to THEN Pending ELSE rs[k]]
\* ids.slice(i, i + c) of n ids, as positions.
Slice(rs, i, c) == SubSeq(rs, i + 1, IF i + c < Len(rs) THEN i + c ELSE Len(rs))

\* The config.options of the clients batch and getAll operations run on.
BatchClients ==
  [timeout : {Undefined},
   maxRetries : {Some(0)},
   parallelLimit : {Undefined} \cup {Some(n) : n \in 0..MaxParallel},
   validateRequests : {Undefined},
   validateResponses : {Undefined}]

\* batchFetch (client/utils.ts): every fetch is started at once.
batchFetch(n) ==
  /\ batch' = [fn |-> "batchFetch", n |-> n, limit |-> n]
  /\ reqs' = [k \in 1..n |-> Pending]
  /\ pc' = "awaiting"
  /\ promise' = "pending"
  /\ UNCHANGED <<cursor, acc, errs, order, result>>

\* getMany of the work-order, sales-order, refund, party and block clients.
GetMany ==
  /\ op = "none"
  /\ \E config \in BatchClients, n \in 0..MaxIds :
       /\ options' = VintraceClient(config)
       /\ batchFetch(n)
  /\ op' = "getMany"
  /\ UNCHANGED fetchVars

\* batchFetch resumes when allSettled has resolved.
BatchFetchSettled ==
  /\ op = "getMany" /\ pc = "awaiting"
  /\ LET all == allSettled(reqs)
     IN /\ all.st # "pending"
        /\ IF all.st = "rejected"
             THEN /\ promise' = "rejected"
                  /\ UNCHANGED <<result, errs, acc>>
             ELSE LET lists == Gather(all.value, [errors |-> <<>>, data |-> <<>>])
                  IN /\ errs' = lists.errors
                     /\ acc' = lists.data
                     /\ result' = BatchResult(lists)
                     /\ promise' = "fulfilled"
  /\ pc' = "done"
  /\ UNCHANGED <<options, op, fetchVars, batch, reqs, cursor, order>>

\* The head of the chunk loop of batchGet: the next slice is fetched while
\* i < ids.length, else the lists are returned.
ChunkLoop(b, rs, i, lists) ==
  /\ cursor' = i
  /\ errs' = lists.errors
  /\ acc' = lists.data
  /\ IF i < b.n
       THEN /\ reqs' = Issue(rs, i + 1, i + b.limit)
            /\ pc' = "awaiting"
            /\ promise' = "pending"
            /\ UNCHANGED result
       ELSE /\ reqs' = rs
            /\ pc' = "done"
            /\ result' = BatchResult(lists)
            /\ promise' = "fulfilled"

\* batchGet (http/pagination.ts) with its concurrency option, 5 when absent.
BatchGet ==
  /\ op = "none"
  /\ \E n \in 0..MaxIds, concurrency \in {Undefined} \cup {Some(c) : c \in 0..MaxParallel} :
       LET b == [fn |-> "batchGet", n |-> n, limit |-> Coalesce(concurrency, 5)]
       IN /\ batch' = b
          /\ ChunkLoop(b, [k \in 1..n |-> Idle], 0, [errors |-> <<>>, data |-> <<>>])
  /\ op' = "batchGet"
  /\ UNCHANGED <<options, fetchVars, order>>

\* getMany of the product-analysis client: chunks of the client's parallelLimit.
AnalysisGetMany ==
  /\ op = "none"
  /\ \E config \in BatchClients, n \in 0..MaxIds :
       LET b == [fn |-> "ProductAnalysisClient.batchGet", n |-> n,
                 limit |-> VintraceClient(config).parallelLimit]
       IN /\ options' = VintraceClient(config)
          /\ batch' = b
          /\ ChunkLoop(b, [k \in 1..n |-> Idle], 0, [errors |-> <<>>, data |-> <<>>])
  /\ op' = "batchGet"
  /\ UNCHANGED <<fetchVars, order>>

\* The chunk's allSettled has resolved: its outcomes are gathered and the loop
\* goes on with i + concurrency.
BatchGetSettled ==
  /\ op = "batchGet" /\ pc = "awaiting"
  /\ LET chunk == Slice(reqs, cursor, batch.limit)
         all == allSettled(chunk)
     IN /\ all.st # "pending"
        /\ IF all.st = "rejected"
             THEN /\ promise' = "rejected"
                  /\ pc' = "done"
                  /\ UNCHANGED <<result, errs, acc, reqs, cursor>>
             ELSE ChunkLoop(batch, reqs, cursor + batch.limit,
                            Gather(all.value, [errors |-> errs, data |-> acc]))
  /\ UNCHANGED <<options, op, fetchVars, batch, order>>

\* A pending per-key fetch settles.
KeySettles ==
  /\ op \in {"getMany", "batchGet"}
  /\ \E k \in 1..Len(reqs) :
       /\ reqs[k].st = "pending"
       /\ \E out \in KeyOutcomes(k) : reqs' = [reqs EXCEPT ![k] = out]
       /\ order' = Append(order, k)
  /\ UNCHANGED <<options, op, pc, fetchVars, batch, cursor, acc, errs, result, promise>>

NextBatch ==
  \/ GetMany
  \/ BatchFetchSettled
  \/ BatchGet
  \/ AnalysisGetMany
  \/ BatchGetSettled
  \/ KeySettles

\* ------------------------------------------------------------ eager getAll
\* The items a list endpoint holding total items returns for the page with
\* this number.
PageItems(page, limit, total) ==
  LET first == page * limit
      count == IF total - first < 0 THEN 0
               ELSE IF total - first < limit THEN total - first ELSE limit
  IN [j \in 1..count |-> first + j]

\* What client.request resolves to for a page: the page (its total count
\* reported or not), no content, or an error tuple.
PageOutcomes(page, limit, total) ==
  {Fulfilled(<<Val([totalResultCount |-> t, workOrders |-> PageItems(page, limit, total)]),
               NullV>>) : t \in {Some(total)} \cup (IF page = 0 THEN {Undefined} ELSE {})}
  \cup {Fulfilled(<<NullV, NullV>>),
        Fulfilled(<<NullV, VintraceNotFoundError("undefined")>>),
        Fulfilled(<<NullV, VintraceServerError(500, "undefined")>>)}

\* (mutant) the quotient rounded down
Ceil_Floor(a, b) == a \div b

\* Math.ceil(a / b) for b > 0.
Ceil(a, b) == (a + b - 1) \div b

\* (mutant) the second argument, whatever the first
Min_Second(a, b) == b

\* Math.min(a, b)
Min(a, b) == IF a < b THEN a ELSE b

\* (mutant) a page that returned an error is skipped
RECURSIVE PushPages_SkipErrors(_, _)
PushPages_SkipErrors(results, all) ==
  IF results = <<>> THEN [error |-> NullV, all |-> all]
  ELSE LET r == Head(results).value
       IN PushPages_SkipErrors(Tail(results),
            IF IsNull(r[2]) /\ ~IsNull(r[1]) THEN all \o r[1].v.workOrders ELSE all)

\* The loop over a batch's results, in page order: the first error ends the
\* aggregation, else the page's items are appended.
RECURSIVE PushPages(_, _)
PushPages(results, all) ==
  IF results = <<>> THEN [error |-> NullV, all |-> all]
  ELSE LET r == Head(results).value
       IN IF ~IsNull(r[2]) THEN [error |-> r[2], all |-> all]
          ELSE PushPages(Tail(results),
                         IF ~IsNull(r[1]) THEN all \o r[1].v.workOrders ELSE all)

\* The head of the batch loop of getAll: the pages i .. i + batchSize - 1 are
\* requested while i < pagesNeeded, else everything collected is returned.
PageLoop(b, parallelLimit, rs, i, all) ==
  /\ cursor' = i
  /\ acc' = all
  /\ IF i < b.n
       THEN /\ reqs' = Issue(rs, i + 1, i + Min(parallelLimit, b.n - i))
            /\ pc' = "awaiting"
            /\ UNCHANGED <<result, promise>>
       ELSE /\ reqs' = rs
            /\ pc' = "done"
            /\ result' = <<Val(all), NullV>>
            /\ promise' = "fulfilled"

\* getAll of a resource client: the first page is requested.
GetAll ==
  /\ op = "none"
  /\ \E config \in BatchClients, limit \in 1..MaxLimit, total \in 0..MaxTotal :
       /\ options' = VintraceClient(config)
       /\ batch' = [fn |-> "getAll", n |-> 1, limit |-> limit, total |-> total]
  /\ op' = "getAll"
  /\ reqs' = <<Pending>>
  /\ pc' = "first"
  /\ promise' = "pending"
  /\ UNCHANGED <<fetchVars, cursor, acc, errs, order, result>>

\* The first page has arrived: an error, no response or a total that fits the
\* page ends the call, else the remaining pages are requested in batches.
GetAllFirst ==
  /\ op = "getAll" /\ pc = "first" /\ IsSettled(reqs[1])
  /\ LET firstResponse == reqs[1].value
         response == firstResponse[1]
     IN IF ~IsNull(firstResponse[2])
          THEN /\ result' = <<NullV, firstResponse[2]>>
               /\ promise' = "fulfilled"
               /\ pc' = "done"
               /\ UNCHANGED <<batch, reqs, cursor, acc>>
        ELSE IF IsNull(response)
          THEN /\ result' = <<Val(<<>>), NullV>>
               /\ promise' = "fulfilled"
               /\ pc' = "done"
               /\ UNCHANGED <<batch, reqs, cursor, acc>>
        ELSE LET totalCount == Coalesce(response.v.totalResultCount,
                                        Len(response.v.workOrders))
                 pagesNeeded == Ceil(totalCount, batch.limit)
                 b == [batch EXCEPT !.n = pagesNeeded]
             IN IF totalCount <= batch.limit
                  THEN /\ result' = <<Val(response.v.workOrders), NullV>>
                       /\ promise' = "fulfilled"
                       /\ pc' = "done"
                       /\ UNCHANGED <<batch, reqs, cursor, acc>>
                  ELSE /\ batch' = b
                       /\ PageLoop(b, options.parallelLimit,
                                   [k \in 1..pagesNeeded |-> IF k = 1 THEN reqs[1] ELSE Idle],
                                   1, response.v.workOrders)
  /\ UNCHANGED <<options, op, fetchVars, errs, order>>

\* Promise.all of the batch has resolved.
GetAllSettled ==
  /\ op = "getAll" /\ pc = "awaiting"
  /\ LET batchSize == Min(options.parallelLimit, batch.n - cursor)
         all == PromiseAll(SubSeq(reqs, cursor + 1, cursor + batchSize))
     IN /\ all.st # "pending"
        /\ IF all.st = "rejected"
             THEN /\ promise' = "rejected"
                  /\ pc' = "done"
                  /\ UNCHANGED <<result, acc, reqs, cursor>>
             ELSE LET pushed == PushPages(all.value, acc)
                  IN IF ~IsNull(pushed.error)
                       THEN /\ result' = <<NullV, pushed.error>>
                            /\ promise' = "fulfilled"
                            /\ pc' = "done"
                            /\ UNCHANGED <<acc, reqs, cursor>>
                       ELSE PageLoop(batch, options.parallelLimit, reqs,
                                     cursor + options.parallelLimit, pushed.all)
  /\ UNCHANGED <<options, op, fetchVars, batch, errs, order>>

\* A pending page request settles.
PageSettles ==
  /\ op = "getAll"
  /\ \E k \in 1..Len(reqs) :
       /\ reqs[k].st = "pending"
       /\ \E out \in PageOutcomes(k - 1, batch.limit, batch.total) :
            reqs' = [reqs EXCEPT ![k] = out]
       /\ order' = Append(order, k)
  /\ UNCHANGED <<options, op, pc, fetchVars, batch, cursor, acc, errs, result, promise>>

NextGetAll ==
  \/ GetAll
  \/ GetAllFirst
  \/ GetAllSettled
  \/ PageSettles

\* --------------------------------------------------- vessel details report
\* What client.request resolves to for the report requested with this limit
\* and no offset: the first page of the total results, no content, or an
\* error tuple.
ReportOutcomes(limit, total) ==
  {Fulfilled(<<Val([totalResults |-> total, offset |-> 0, limit |-> limit,
                    results |-> PageItems(0, limit, total)]), NullV>>),
   Fulfilled(<<NullV, NullV>>),
   Fulfilled(<<NullV, VintraceAuthenticationError("undefined")>>)}

\* VesselDetailsReportClient.get: one GET request with the params.
VesselDetailsReportGet ==
  /\ op = "none"
  /\ \E config \in BatchClients, limit \in 1..MaxLimit, total \in 0..MaxTotal :
       /\ options' = VintraceClient(config)
       /\ batch' = [fn |-> "vesselDetailsReport.get", n |-> 1, limit |-> limit,
                    total |-> total]
  /\ op' = "vesselDetailsReport.get"
  /\ reqs' = <<Pending>>
  /\ pc' = "awaiting"
  /\ promise' = "pending"
  /\ UNCHANGED <<fetchVars, cursor, acc, errs, order, result>>

\* The request settles: its tuple is what get returns.
VesselDetailsReportSettled ==
  /\ op = "vesselDetailsReport.get" /\ pc = "awaiting"
  /\ \E out \in ReportOutcomes(batch.limit, batch.total) :
       /\ reqs' = <<out>>
       /\ result' = out.value
  /\ order' = Append(order, 1)
  /\ pc' = "done"
  /\ promise' = "fulfilled"
  /\ UNCHANGED <<options, op, fetchVars, batch, cursor, acc, errs>>

NextReport ==
  \/ VesselDetailsReportGet
  \/ VesselDetailsReportSettled

\* ------------------------------------------------------------ lazy paginate
\* fetchFn(offset, limit) called and pending.
PageCall(offset, limit) == [st |-> "pending", offset |-> offset, limit |-> limit]
\* The call c settled with the outcome out.
PageArrived(c, out) ==
  IF out.st = "fulfilled"
    THEN [st |-> "fulfilled", value |-> out.value, offset |-> c.offset, limit |-> c.limit]
    ELSE [st |-> "rejected", reason |-> out.reason, offset |-> c.offset, limit |-> c.limit]

\* What fetchFn ends in for the page at offset, the k-th of the source: a page
\* of up to limit items with a next indicator (null on the source's last
\* page), no content, an error tuple, or a rejection.
PaginateOutcomes(offset, limit, k) ==
  {Fulfilled(<<Val([results |-> [j \in 1..count |-> offset + j], next |-> next]), NullV>>) :
     count \in 0..Min(limit, MaxPageItems),
     next \in {NullV} \cup (IF k < MaxPages THEN {Val("next")} ELSE {})}
  \cup {Fulfilled(<<NullV, NullV>>),
        Fulfilled(<<NullV, VintraceServerError(500, "undefined")>>),
        Rejected(Val("boom"))}

\* (mutant) a page is always taken to be followed by another
HasMore_Always(response) == TRUE

\* hasMore = response.next !== null
HasMore(response) == ~IsNull(response.next)

\* (mutant) an error ends the sequence like an absent response
AfterPage_BreakOnError(r) ==
  IF r.st = "rejected" THEN "throw"
  ELSE IF ~IsNull(r.value[2]) THEN "break"
  ELSE IF IsNull(r.value[1]) THEN "break"
  ELSE "iterate"

\* What the generator does with the awaited page: a rejection and an error are
\* thrown, an absent response breaks the loop, a page is iterated.
AfterPage(r) ==
  IF r.st = "rejected" THEN "throw"
  ELSE IF ~IsNull(r.value[2]) THEN "throw"
  ELSE IF IsNull(r.value[1]) THEN "break"
  ELSE "iterate"

\* (mutant) after the last item of a page the generator runs on
Yield_Prefetch(rest) == IF rest = <<>> THEN "continue" ELSE "suspend"

\* yield item: the generator is suspended at the yield until the consumer
\* asks for the next item, whatever is left of the page.
Yield(rest) == "suspend"

\* The head of the while loop: fetchFn is called while hasMore, else the
\* generator returns.
PaginateLoop(b, offset, rs) ==
  /\ batch' = b
  /\ cursor' = offset
  /\ IF b.hasMore
       THEN /\ reqs' = Append(rs, PageCall(offset, b.limit))
            /\ pc' = "awaiting"
       ELSE /\ reqs' = rs
            /\ pc' = "done"

\* The end of the for loop over a page: offset += limit, hasMore from the
\* page's next indicator, then the loop head.
PageExhausted(b, offset, rs) ==
  PaginateLoop([b EXCEPT !.hasMore = HasMore(b.page.v), !.page = NullV, !.buffer = <<>>],
               offset + b.limit, rs)

\* paginate(fetchFn, options): the generator is created; nothing runs before
\* the consumer asks for the first item.
Paginate ==
  /\ op = "none"
  /\ \E limit \in {Undefined} \cup {Some(l) : l \in 1..MaxLimit} :
       batch' = [fn |-> "paginate", option |-> limit, limit |-> Coalesce(limit, 100),
                 hasMore |-> TRUE, page |-> NullV, buffer |-> <<>>, asked |-> 0]
  /\ op' = "paginate"
  /\ pc' = "suspended"
  /\ cursor' = 0
  /\ UNCHANGED <<options, fetchVars, reqs, acc, errs, order, result, promise>>

\* The consumer asks for the next item (asked counts these calls): the
\* generator resumes where it was suspended and yields the page's next item, or
\* leaves the for loop.
PaginateNext ==
  /\ op = "paginate" /\ pc = "suspended"
  /\ LET b == [batch EXCEPT !.asked = @ + 1]
     IN IF b.buffer # <<>>
          THEN /\ acc' = Append(acc, Head(b.buffer))
               /\ IF Yield(Tail(b.buffer)) = "suspend"
                    THEN /\ batch' = [b EXCEPT !.buffer = Tail(@)]
                         /\ UNCHANGED <<pc, cursor, reqs>>
                    ELSE PageExhausted(b, cursor, reqs)
        ELSE IF IsNull(b.page)
          THEN /\ PaginateLoop(b, cursor, reqs)
               /\ UNCHANGED acc
        ELSE /\ PageExhausted(b, cursor, reqs)
             /\ UNCHANGED acc
  /\ UNCHANGED <<options, op, fetchVars, errs, order, result, promise>>

\* The awaited fetchFn settles while the consumer waits for an item.
PaginateArrives ==
  /\ op = "paginate" /\ pc = "awaiting"
  /\ \E out \in PaginateOutcomes(cursor, batch.limit, Len(reqs)) :
       LET r == PageArrived(reqs[Len(reqs)], out)
           rs == [reqs EXCEPT ![Len(reqs)] = r]
           step == AfterPage(r)
       IN IF step = "throw"
            THEN /\ errs' = <<IF r.st = "rejected" THEN r.reason ELSE r.value[2]>>
                 /\ pc' = "threw"
                 /\ reqs' = rs
                 /\ UNCHANGED <<batch, cursor, acc>>
          ELSE IF step = "break"
            THEN /\ pc' = "done"
                 /\ reqs' = rs
                 /\ UNCHANGED <<batch, cursor, acc, errs>>
          ELSE LET results == r.value[1].v.results
                   b == [batch EXCEPT !.page = r.value[1]]
               IN IF results # <<>>
                    THEN /\ acc' = Append(acc, Head(results))
                         /\ UNCHANGED errs
                         /\ IF Yield(Tail(results)) = "suspend"
                              THEN /\ batch' = [b EXCEPT !.buffer = Tail(results)]
                                   /\ pc' = "suspended"
                                   /\ reqs' = rs
                                   /\ UNCHANGED cursor
                              ELSE PageExhausted(b, cursor, rs)
                    ELSE /\ PageExhausted(b, cursor, rs)
                         /\ UNCHANGED <<acc, errs>>
  /\ UNCHANGED <<options, op, fetchVars, order, result, promise>>

\* The consumer stops iterating: the suspended generator is closed.
PaginateReturn ==
  /\ op = "paginate" /\ pc = "suspended"
  /\ pc' = "closed"
  /\ UNCHANGED <<options, op, fetchVars, batchVars, result, promise>>

NextPaginate ==
  \/ Paginate
  \/ PaginateNext
  \/ PaginateArrives
  \/ PaginateReturn

\* ------------------------------------------------- the request of a call
\* The URL and the fetch init of a call (fetch.ts lines 60-73 and 100-105) as a
\* function of the method and of the body argument, for each of the five
\* methods and for parameter objects with typed values.
HttpMethods == {"GET", "POST", "PUT", "PATCH", "DELETE"}
ParamKeys == <<"a", "b", "c", "d", "e">>
\* A value of a parameter object: its typeof and its String(value); "absent"
\* marks a key the object does not have.
ParamNumber == [type |-> "number", string |-> "1"]
ParamString == [type |-> "string", string |-> "x"]
ParamNull == [type |-> "null", string |-> "null"]
ParamUndefined == [type |-> "undefined", string |-> "undefined"]
ParamAbsent == [type |-> "absent", string |-> ""]
ParamValues == {ParamNumber, ParamString, ParamNull, ParamUndefined, ParamAbsent}
\* The body argument: undefined, null, or an object over the keys.
ParamObjects == [1..MaxParams -> ParamValues]
UndefinedBody == [isNull |-> TRUE, undefined |-> TRUE]
Bodies == {Val(o) : o \in ParamObjects} \cup {NullV, UndefinedBody}

\* Object.entries(body): the [key, value] pairs of the object's own keys, in
\* key order.
RECURSIVE ObjectEntries(_, _)
ObjectEntries(o, k) ==
  IF k > MaxParams THEN <<>>
  ELSE (IF o[k] = ParamAbsent THEN <<>> ELSE <<[key |-> ParamKeys[k], value |-> o[k]]>>)
       \o ObjectEntries(o, k + 1)

\* (mutant) only undefined values are left out of the query string
RECURSIVE SearchParams_KeepNull(_)
SearchParams_KeepNull(entries) ==
  IF entries = <<>> THEN <<>>
  ELSE (IF Head(entries).value.type # "undefined"
          THEN <<[key |-> Head(entries).key, value |-> Head(entries).value.string]>>
          ELSE <<>>)
       \o SearchParams_KeepNull(Tail(entries))

\* The loop of lines 66-70: params.set(key, String(value)) for the values
\* that are neither undefined nor null.
RECURSIVE SearchParams(_)
SearchParams(entries) ==
  IF entries = <<>> THEN <<>>
  ELSE (IF Head(entries).value.type # "undefined" /\ Head(entries).value.type # "null"
          THEN <<[key |-> Head(entries).key, value |-> Head(entries).value.string]>>
          ELSE <<>>)
       \o SearchParams(Tail(entries))

\* JSON.stringify of an object: the keys with an undefined value are left
\* out, null is written as null.
RECURSIVE JSONstringify(_)
JSONstringify(entries) ==
  IF entries = <<>> THEN <<>>
  ELSE (IF Head(entries).value.type # "undefined" THEN <<Head(entries)>> ELSE <<>>)
       \o JSONstringify(Tail(entries))

\* Lines 61-73: the URL, with the query string when the method is bodyless,
\* the body is a (non-null) object and the serialised parameters are not empty.
RequestUrl(method, body) ==
  LET qs == IF isBodylessMethod(method) /\ ~IsNull(body)
              THEN SearchParams(ObjectEntries(body.v, 1)) ELSE <<>>
  IN [path |-> <<"baseUrl", "/", "organization", "/api/", "endpoint">>,
      mark |-> qs # <<>>, query |-> qs]

\* Line 103: the body of the fetch init.
RequestBody(method, body) ==
  IF isBodylessMethod(method) THEN NullV
  ELSE IF ~IsNull(body) THEN Val(JSONstringify(ObjectEntries(body.v, 1)))
  ELSE NullV

\* The call's arguments are given.
InitRequest ==
  /\ options = DEFAULT_OPTIONS
  /\ op = "buildRequest"
  /\ call \in [method : HttpMethods, body : Bodies, url : {NullV}, init : {NullV}]
  /\ pc = "idle"
  /\ attempt = 0
  /\ history = <<>>
  /\ delays = <<>>
  /\ timers = {}
  /\ inFlight = {}
  /\ bodyReads = 0
  /\ validations = 0
  /\ batch = NoBatch
  /\ reqs = <<>>
  /\ cursor = 0
  /\ acc = <<>>
  /\ errs = <<>>
  /\ order = <<>>
  /\ result = NoResult
  /\ promise = "none"

\* The URL and the init of the first fetch are built.
BuildRequest ==
  /\ op = "buildRequest" /\ pc = "idle"
  /\ call' = [call EXCEPT !.url = Val(RequestUrl(call.method, call.body)),
                          !.init = Val([method |-> call.method,
                                        body |-> RequestBody(call.method, call.body)])]
  /\ pc' = "built"
  /\ UNCHANGED <<options, op, attempt, history, delays, timers, inFlight, bodyReads,
                 validations, batchVars, result, promise>>

NextRequest == BuildRequest

NextFetch ==
  \/ FetchCall
  \/ ClientRequest
  \/ LoopHead
  \/ ResponseError
  \/ ResponseSuccess
  \/ FetchAbort
  \/ FetchFailure
  \/ BackoffElapsed
  \/ ValidateCall

\* ----------------------------------------------------------------- claims
\* A vintraceFetch call that has returned.
FetchDone == op = "vintraceFetch" /\ pc = "done"
\* The network attempts the call has made so far.
NetworkAttempts == Len(history) + Cardinality(inFlight)
LastAttempt == history[Len(history)]
Returned(kind, status) ==
  /\ promise = "fulfilled"
  /\ IsNull(result[1])
  /\ ~IsNull(result[2])
  /\ result[2].kind = kind
  /\ result[2].status = status

\* C1: a call whose every attempt received the same status in {500, 502, 503,
\* 504} has made exactly maxRetries + 1 network attempts and returned
\* [null, ServerError] carrying that status.
C1_RetryableExhausted ==
  \A s \in {500, 502, 503, 504} :
    (/\ FetchDone
     /\ Len(history) >= 1
     /\ \A k \in 1..Len(history) : history[k].kind = "response" /\ history[k].status = s)
    => /\ NetworkAttempts = call.maxRetries + 1
       /\ Returned("VintraceServerError", s)

C1_Witness ==
  /\ FetchDone
  /\ call.maxRetries = 2
  /\ Len(history) = 3
  /\ \A k \in 1..3 : history[k].kind = "response" /\ history[k].status = 504

\* C2: an attempt that receives 401 is the call's last: the call has returned
\* [null, AuthenticationError] and no further attempt is in flight or pending,
\* whatever maxRetries is and however many attempts were retried before.
C2_AuthNeverRetried ==
  \A k \in 1..Len(history) :
    (op = "vintraceFetch" /\ history[k].kind = "response" /\ history[k].status = 401)
    => /\ k = Len(history)
       /\ pc = "done"
       /\ inFlight = {}
       /\ Returned("VintraceAuthenticationError", 401)

C2_Witness ==
  /\ FetchDone
  /\ call.maxRetries = 2
  /\ Len(history) = 2
  /\ history[1].status = 503
  /\ history[2].status = 401

\* C3 (as claimed): the wait after a 429 whose retry-after header parses to N
\* is a timer delay of N * 1000 ms.
C3_RetryAfterSeconds ==
  \A k \in 1..Len(delays) :
    (op = "vintraceFetch" /\ history[k].status = 429 /\ IsDefined(history[k].retryAfter))
    => delays[k] = history[k].retryAfter[1] * 1000

\* C4: a non-2xx response on attempt k is followed by another attempt exactly
\* when its status is in {408, 429, 500, 502, 503, 504} and k < maxRetries;
\* any other non-2xx response ends the call with the error of that status.
C4_RetryIffRetryable ==
  \A k \in 1..Len(history) :
    (op = "vintraceFetch" /\ history[k].kind = "response" /\ ~ResponseOk(history[k].status))
    => IF history[k].status \in {408, 429, 500, 502, 503, 504} /\ k - 1 < call.maxRetries
         THEN \/ k < Len(history)
              \/ pc = "fetching"
              \/ pc = "waiting" /\ attempt + 1 <= call.maxRetries
              \/ pc = "loop" /\ attempt <= call.maxRetries
         ELSE /\ k = Len(history)
              /\ pc = "done"
              /\ inFlight = {}
              /\ promise = "fulfilled"
              /\ ~IsNull(result[2])
              /\ result[2].status = history[k].status

C4_Witness ==
  /\ FetchDone
  /\ call.maxRetries = 2
  /\ Len(history) = 2
  /\ history[1].status = 408
  /\ history[2].status = 501

\* C5: a call whose every attempt was aborted by its timeout has made
\* maxRetries + 1 attempts, waited 1000 * 2^k ms after attempt k, and returned
\* [null, VintraceError 408 'Request timeout'].
C5_TimeoutExhausted ==
  (/\ FetchDone
   /\ Len(history) >= 1
   /\ \A k \in 1..Len(history) : history[k].kind = "abort")
  => /\ NetworkAttempts = call.maxRetries + 1
     /\ delays = [k \in 1..call.maxRetries |-> 1000 * Pow2(k - 1)]
     /\ Returned("VintraceError", 408)
     /\ result[2].message = "Request timeout"

C5_Witness ==
  /\ FetchDone
  /\ call.maxRetries = 2
  /\ Len(history) = 3
  /\ \A k \in 1..3 : history[k].kind = "abort"

\* C6: in every result tuple the data slot and the error slot are never both
\* non-null.
C6_ResultShape == IsNull(result[1]) \/ IsNull(result[2])

C6_Witness ==
  /\ op = "getMany"
  /\ pc = "done"
  /\ \E k \in 1..Len(reqs) : reqs[k].st = "fulfilled" /\ ~IsNull(reqs[k].value[1])
  /\ \E k \in 1..Len(reqs) : reqs[k].st = "fulfilled" /\ ~IsNull(reqs[k].value[2])
  /\ IsNull(result[1])
  /\ ~IsNull(result[2])

\* C7: no operation's promise is ever rejected; a call that ends on a network
\* failure, a timeout, an unparsable body or a schema failure, and a batch with
\* a rejected per-key fetch, return a tuple carrying an error.
C7_NeverRejects ==
  /\ promise # "rejected"
  /\ (FetchDone /\ Len(history) >= 1
      /\ \/ LastAttempt.kind \in {"failure", "abort"}
         \/ LastAttempt.json = "SyntaxError"
         \/ LastAttempt.parse \in {"ZodError", "OtherError"})
     => promise = "fulfilled" /\ IsNull(result[1]) /\ ~IsNull(result[2])
  /\ (op \in {"getMany", "batchGet"} /\ pc = "done"
      /\ \E k \in 1..Len(reqs) : reqs[k].st = "rejected")
     => promise = "fulfilled" /\ IsNull(result[1]) /\ ~IsNull(result[2])
  /\ (op = "getAll" /\ pc = "done") => promise = "fulfilled"

C7_Witness ==
  /\ op = "getMany"
  /\ pc = "done"
  /\ \E k \in 1..Len(reqs) : reqs[k].st = "rejected"
  /\ \E k \in 1..Len(reqs) : reqs[k].st = "fulfilled"
  /\ promise = "fulfilled"

\* C8: a call whose final response is a 204 returns exactly [null, null]; the
\* body of that response is neither read nor validated (the only bodies read
\* are those of the earlier, retried responses).
C8_NoContent ==
  (FetchDone /\ Len(history) >= 1
   /\ LastAttempt.kind = "response" /\ LastAttempt.status = 204)
  => /\ promise = "fulfilled"
     /\ result = <<NullV, NullV>>
     /\ validations = 0
     /\ bodyReads = Cardinality({k \in 1..(Len(history) - 1) : history[k].kind = "response"})

C8_Witness ==
  /\ FetchDone
  /\ Len(history) = 2
  /\ history[1].status = 429
  /\ history[2].status = 204
  /\ call.validateResponse /\ call.responseSchema

\* C9: the error returned for a final non-2xx response of status s is, by
\* first match: 401 Authentication, 404 NotFound, 429 RateLimit, another
\* 400..499 Validation, 500 and above ServerError, anything else a generic
\* VintraceError; each carries status s.
C9_Classification ==
  (FetchDone /\ Len(history) >= 1
   /\ LastAttempt.kind = "response" /\ ~ResponseOk(LastAttempt.status))
  => LET s == LastAttempt.status
     IN Returned(IF s = 401 THEN "VintraceAuthenticationError"
                 ELSE IF s = 404 THEN "VintraceNotFoundError"
                 ELSE IF s = 429 THEN "VintraceRateLimitError"
                 ELSE IF s \in 400..499 THEN "VintraceValidationError"
                 ELSE IF s >= 500 THEN "VintraceServerError"
                 ELSE "VintraceError", s)

C9_Witness ==
  /\ FetchDone
  /\ Len(history) = 3
  /\ history[3].kind = "response"
  /\ history[3].status = 429
  /\ result[2].kind = "VintraceRateLimitError"

\* C10 (as claimed): a getMany that runs on batchFetch never has more than
\* parallelLimit per-key fetches in flight.
C10_GetManyBounded ==
  (op = "getMany" /\ options.parallelLimit >= 1)
  => Cardinality({k \in 1..Len(reqs) : reqs[k].st = "pending"}) <= options.parallelLimit

\* A batch operation that has returned.
BatchDone == op \in {"getMany", "batchGet"} /\ pc = "done" /\ promise = "fulfilled"
\* A per-key fetch that returned an error or rejected.
KeyFailed(r) == r.st = "rejected" \/ (r.st = "fulfilled" /\ ~IsNull(r.value[2]))
\* A per-key fetch that returned an item.
KeyItem(r) == r.st = "fulfilled" /\ IsNull(r.value[2]) /\ ~IsNull(r.value[1])

\* C11: batchGet with n keys and concurrency c >= 1 fetches in sequential waves
\* over consecutive slices: the keys up to the loop index have settled, the
\* wave in flight is the slice of min(c, remaining) keys after it, no later key
\* has been started, and a finished call went through ceil(n / c) waves.
C11_Waves ==
  (op = "batchGet" /\ batch.limit >= 1)
  => LET n == batch.n
         c == batch.limit
     IN /\ cursor % c = 0
        /\ \A k \in 1..n : k <= cursor => IsSettled(reqs[k])
        /\ pc = "awaiting"
             => /\ cursor < n
                /\ \A k \in 1..n : (reqs[k].st # "idle") <=> (k <= cursor + c)
        /\ (pc = "done" /\ promise = "fulfilled")
             => /\ \A k \in 1..n : IsSettled(reqs[k])
                /\ cursor >= n
                /\ cursor - c < n

C11_Witness ==
  /\ op = "batchGet"
  /\ batch.n = 3
  /\ batch.limit = 2
  /\ pc = "awaiting"
  /\ cursor = 2
  /\ reqs[3].st = "pending"

\* C12: a finished batch has fetched every key exactly once; it returns
\* [null, AggregateError(E)] exactly when some key failed, E holding one error
\* per failed key (the returned error, or a status-0 error for a rejection) and
\* no item; else it returns [items, null].
C12_AggregateIff ==
  BatchDone
  => LET failed == SelectSeq(reqs, KeyFailed)
         items == SelectSeq(reqs, KeyItem)
     IN /\ \A k \in 1..Len(reqs) : IsSettled(reqs[k])
        /\ Len(order) = Len(reqs)
        /\ {order[j] : j \in 1..Len(order)} = 1..Len(reqs)
        /\ IF Len(failed) > 0
             THEN /\ IsNull(result[1])
                  /\ ~IsNull(result[2])
                  /\ result[2].kind = "VintraceAggregateError"
                  /\ Len(result[2].errors) = Len(failed)
                  /\ \A j \in 1..Len(failed) :
                       IF failed[j].st = "fulfilled"
                         THEN result[2].errors[j] = failed[j].value[2]
                         ELSE /\ result[2].errors[j].kind = "VintraceError"
                              /\ result[2].errors[j].status = 0
             ELSE result = <<Val([j \in 1..Len(items) |-> items[j].value[1].v]), NullV>>

C12_Witness ==
  /\ BatchDone
  /\ batch.fn = "batchGet"
  /\ batch.limit = 1
  /\ Len(reqs) = 3
  /\ KeyFailed(reqs[1])
  /\ KeyItem(reqs[2])
  /\ reqs[3].st = "rejected"

\* C13 (as claimed): when some keys fail and others succeed, the items of the
\* successful keys are still in the batch result.
C13_ItemsKept ==
  (BatchDone /\ (\E k \in 1..Len(reqs) : KeyFailed(reqs[k])))
  => \A k \in 1..Len(reqs) :
       KeyItem(reqs[k])
       => /\ ~IsNull(result[1])
          /\ \E j \in 1..Len(result[1].v) : result[1].v[j] = reqs[k].value[1].v

\* C13 (amended): when some keys fail and others succeed, the data slot of the
\* batch result is null and the aggregate error holds errors only, as many as
\* keys failed: the items of the successful keys are discarded.
C13_ItemsDiscarded ==
  (BatchDone /\ (\E k \in 1..Len(reqs) : KeyFailed(reqs[k]))
             /\ (\E k \in 1..Len(reqs) : KeyItem(reqs[k])))
  => /\ result[1] = NullV
     /\ Len(result[2].errors) < Len(reqs)
     /\ \A j \in 1..Len(result[2].errors) :
          result[2].errors[j].kind \in {"VintraceError", "VintraceNotFoundError",
                                        "VintraceServerError"}

C13_Witness ==
  /\ BatchDone
  /\ batch.fn = "batchFetch"
  /\ Len(reqs) = 2
  /\ KeyItem(reqs[1])
  /\ reqs[2].st = "fulfilled"
  /\ KeyFailed(reqs[2])
  /\ reqs[2].value[2].kind = "VintraceNotFoundError"

\* An eager getAll that has returned.
GetAllDone == op = "getAll" /\ pc = "done" /\ promise = "fulfilled"
\* A page request that returned no error, one that returned a page, and one
\* that returned an error.
PageOk(r) == r.st = "fulfilled" /\ IsNull(r.value[2])
PageData(r) == r.st = "fulfilled" /\ IsNull(r.value[2]) /\ ~IsNull(r.value[1])
PageError(r) == r.st = "fulfilled" /\ ~IsNull(r.value[2])
\* The items of the pages rs, page after page.
RECURSIVE ConcatPages(_)
ConcatPages(rs) ==
  IF rs = <<>> THEN <<>> ELSE Head(rs).value[1].v.workOrders \o ConcatPages(Tail(rs))

\* C14: a getAll whose every page request returned a page returns the pages'
\* items concatenated in ascending offset order, in whatever order the
\* requests of a batch completed.
C14_OffsetOrder ==
  (GetAllDone /\ \A k \in 1..Len(reqs) : PageData(reqs[k]))
  => result = <<Val(ConcatPages(reqs)), NullV>>

C14_Witness ==
  /\ GetAllDone
  /\ Len(reqs) = 3
  /\ \A k \in 1..3 : PageData(reqs[k])
  /\ order = <<1, 3, 2>>
  /\ result[1].v = <<1, 2, 3>>

\* C15: a getAll whose every request succeeded has made one request when the
\* first page's total count (the reported one, else the page's length) is at
\* most the page size, returning that page's items, and otherwise one request
\* for each offset 0, limit, 2*limit, ... below the total count, none twice.
C15_RequestCount ==
  (GetAllDone /\ \A k \in 1..Len(reqs) : reqs[k].st # "idle" => PageOk(reqs[k]))
  => LET first == reqs[1].value[1]
         requested == {order[j] : j \in 1..Len(order)}
     IN /\ Cardinality(requested) = Len(order)
        /\ IF IsNull(first)
             THEN Len(order) = 1 /\ result = <<Val(<<>>), NullV>>
             ELSE LET totalCount == Coalesce(first.v.totalResultCount,
                                             Len(first.v.workOrders))
                  IN IF totalCount <= batch.limit
                       THEN /\ Len(order) = 1
                            /\ result = <<Val(first.v.workOrders), NullV>>
                       ELSE requested =
                              {p + 1 : p \in {q \in 0..MaxTotal : q * batch.limit < totalCount}}

C15_Witness ==
  /\ GetAllDone
  /\ batch.limit = 2
  /\ batch.total = 3
  /\ Len(order) = 2
  /\ result = <<Val(<<1, 2, 3>>), NullV>>

\* C16: a getAll one of whose page requests returned an error returns
\* [null, error] with the error of the first failed page in page order, no
\* items, and no page of a later batch was requested.
C16_FirstErrorWins ==
  (GetAllDone /\ \E k \in 1..Len(reqs) : PageError(reqs[k]))
  => LET k0 == CHOOSE k \in 1..Len(reqs) :
                 /\ PageError(reqs[k])
                 /\ \A j \in 1..(k - 1) : ~PageError(reqs[j])
     IN /\ result = <<NullV, reqs[k0].value[2]>>
        /\ \A k \in (k0 + 1)..Len(reqs) :
             ((k - 2) \div options.parallelLimit > (k0 - 2) \div options.parallelLimit)
             => reqs[k].st = "idle"

C16_Witness ==
  /\ GetAllDone
  /\ options.parallelLimit = 2
  /\ Len(reqs) = 4
  /\ PageData(reqs[2])
  /\ PageError(reqs[3])
  /\ reqs[4].st = "idle"
  /\ IsNull(result[1])

\* The limit paginate was configured with.
PaginateLimit == IF IsDefined(batch.option) THEN batch.option[1] ELSE 100
\* A page fetch of paginate that returned a page.
LazyPage(r) == r.st = "fulfilled" /\ IsNull(r.value[2]) /\ ~IsNull(r.value[1])
\* The items of the pages among rs, page after page.
RECURSIVE ConcatResults(_)
ConcatResults(rs) ==
  IF rs = <<>> THEN <<>>
  ELSE (IF LazyPage(Head(rs)) THEN Head(rs).value[1].v.results ELSE <<>>)
       \o ConcatResults(Tail(rs))

\* C17: paginate calls fetchFn at offsets 0, limit, 2*limit, ... with the
\* configured limit (100 when absent); a further page is requested only after
\* a page with a non-null next indicator whose items have all been yielded in
\* order, and the sequence ends normally only after a page whose next
\* indicator is null (or an absent response).
C17_LazyPages ==
  op = "paginate"
  => LET n == Len(reqs)
     IN /\ \A k \in 1..n : reqs[k].offset = (k - 1) * PaginateLimit
                             /\ reqs[k].limit = PaginateLimit
        /\ \A k \in 1..(n - 1) : LazyPage(reqs[k]) /\ ~IsNull(reqs[k].value[1].v.next)
        /\ acc \o batch.buffer = ConcatResults(reqs)
        /\ Len(acc) >= Len(ConcatResults(SubSeq(reqs, 1, n - 1)))
        /\ (n >= 1 /\ reqs[n].st = "pending")
             => batch.buffer = <<>> /\ acc = ConcatResults(SubSeq(reqs, 1, n - 1))
        /\ pc = "done"
             => /\ n >= 1
                /\ reqs[n].st = "fulfilled"
                /\ IsNull(reqs[n].value[2])
                /\ IsNull(reqs[n].value[1]) \/ IsNull(reqs[n].value[1].v.next)
                /\ acc = ConcatResults(reqs)

C17_Witness ==
  /\ op = "paginate"
  /\ pc = "done"
  /\ batch.limit = 2
  /\ Len(reqs) = 2
  /\ acc = <<1, 2, 3>>

\* C18: a page fetch of paginate that returns an error is the last call of
\* fetchFn: the sequence has failed with that error, after the items of all
\* earlier pages were yielded.
C18_ErrorEndsSequence ==
  op = "paginate"
  => \A k \in 1..Len(reqs) :
       (reqs[k].st = "fulfilled" /\ ~IsNull(reqs[k].value[2]))
       => /\ k = Len(reqs)
          /\ pc = "threw"
          /\ errs = <<reqs[k].value[2]>>
          /\ acc = ConcatResults(SubSeq(reqs, 1, k - 1))
          /\ \A j \in 1..(k - 1) : reqs[j].offset # reqs[k].offset

C18_Witness ==
  /\ op = "paginate"
  /\ pc = "threw"
  /\ Len(reqs) = 2
  /\ Len(acc) = 2
  /\ reqs[2].st = "fulfilled"
  /\ errs = <<reqs[2].value[2]>>

\* C19 (as claimed): vesselDetailsReport.get whose first response reports more
\* total results than the limit has requested every page (offsets 0, limit,
\* 2*limit, ...) and returns the results of all pages in offset order.
C19_ReportAutoPaginates ==
  (/\ op = "vesselDetailsReport.get" /\ pc = "done"
   /\ PageData(reqs[1])
   /\ reqs[1].value[1].v.totalResults > batch.limit)
  => /\ Len(reqs) * batch.limit >= batch.total
     /\ (Len(reqs) - 1) * batch.limit < batch.total
     /\ ~IsNull(result[1])
     /\ result[1].v.results = [j \in 1..batch.total |-> j]

\* A call whose request validation ran: it is enabled, a schema was given and
\* a body is present.
RequestValidated == op = "vintraceFetch" /\ call.parsed # "none"
\* The call ended on the schema error without any network attempt.
RejectedBeforeNetwork ==
  /\ pc = "done"
  /\ history = <<>>
  /\ inFlight = {}
  /\ promise = "fulfilled"
  /\ result = <<NullV, VintraceValidationSchemaError>>

\* C20 (as claimed): a call whose request validation rejected the body has
\* returned the schema error without a network attempt, and every attempt of a
\* call whose validation accepted the body sent the parsed body.
C20_ValidatedBodySent ==
  RequestValidated
  => /\ call.parsed = "ZodError" => RejectedBeforeNetwork
     /\ call.parsed = "ok" => \A k \in 1..Len(history) : history[k].sent = "validated"

\* C20 (amended): a rejected body ends the call with the schema error and no
\* network attempt; after an accepted body every attempt of a POST, PUT or
\* PATCH call sends the parsed body, while an attempt of a GET or DELETE call
\* sends no body and a query string serialised from the body as it was given,
\* before the validation.
C20_ValidatedBodySentUnlessBodyless ==
  RequestValidated
  => /\ call.parsed = "ZodError" => RejectedBeforeNetwork
     /\ call.parsed = "ok"
          => \A k \in 1..Len(history) :
               IF isBodylessMethod(call.method)
                 THEN history[k].sent = "undefined" /\ call.query = "raw"
                 ELSE history[k].sent = "validated" /\ call.query = "none"

C20_Witness ==
  /\ RequestValidated
  /\ call.parsed = "ok"
  /\ call.method = "POST"
  /\ pc = "done"
  /\ Len(history) = 2
  /\ history[2].sent = "validated"

\* C21: with validateResponse enabled and a responseSchema, the parsed body of
\* every non-204 2xx response goes through the schema; a rejected body ends
\* the call at that attempt with [null, SchemaValidation error], an accepted
\* one with [validated value, null].
C21_ResponseValidation ==
  op = "vintraceFetch"
  => \A k \in 1..Len(history) :
       LET h == history[k]
       IN /\ (/\ call.validateResponse /\ call.responseSchema
              /\ h.kind = "response" /\ h.json \in {"null", "data"})
             => h.parse # "none"
          /\ h.parse = "ZodError"
             => /\ k = Len(history)
                /\ pc = "done"
                /\ inFlight = {}
                /\ promise = "fulfilled"
                /\ result = <<NullV, VintraceValidationSchemaError>>
          /\ (h.parse = "ok" /\ h.json = "data")
             => /\ k = Len(history)
                /\ pc = "done"
                /\ result = <<Val("validated"), NullV>>

C21_Witness ==
  /\ FetchDone
  /\ call.maxRetries = 2
  /\ Len(history) = 2
  /\ history[1].status = 503
  /\ history[2].status = 200
  /\ history[2].parse = "ZodError"
  /\ ~IsNull(result[2])

\* C22 (as claimed): on a request made through the client, a payload that the
\* supplied requestSchema rejects (validateRequests enabled) ends the call on
\* the schema error before any network attempt, and a 2xx body that the
\* supplied responseSchema rejects (validateResponses enabled) ends the call
\* with [null, SchemaValidation error].
C22_SchemasReachExecutor ==
  (op = "vintraceFetch" /\ call.via.by = "client")
  => /\ call.via.requestVerdict = "ZodError" => RejectedBeforeNetwork
     /\ \A k \in 1..Len(history) :
          history[k].verdict = "ZodError"
          => /\ k = Len(history)
             /\ pc = "done"
             /\ result = <<NullV, VintraceValidationSchemaError>>

\* C23: an attempt whose fetch fails at the network level, other than by the
\* abort of the timeout, ends the call at once: the call returns [null, error]
\* with status 0 and, for a thrown Error, the message of that Error.
C23_NetworkFailure ==
  op = "vintraceFetch"
  => \A k \in 1..Len(history) :
       history[k].kind = "failure"
       => /\ k = Len(history)
          /\ pc = "done" /\ inFlight = {} /\ promise = "fulfilled"
          /\ Returned("VintraceFetchError", 0)
          /\ history[k].thrown = "fetch failed" => result[2].message = "fetch failed"
          /\ history[k].thrown = "not an Error" => result[2].message = "Unknown error"

\* The third attempt of a call fails with an Error after two retried attempts.
C23_Witness ==
  /\ FetchDone
  /\ Len(history) = 3
  /\ history[3].kind = "failure"
  /\ history[3].thrown = "fetch failed"
  /\ result[2].message = "fetch failed"
  /\ result[2].status = 0

\* The page requests of a getAll call that are in flight.
PagesInFlight == {k \in 1..Len(reqs) : reqs[k].st = "pending"}
\* The batch of the request for page k - 1 (k >= 2), counted from 0.
PageBatch(k) == (k - 2) \div options.parallelLimit

\* C24: in a getAll call on a client with parallelLimit >= 1, at most
\* parallelLimit page requests are in flight; no other page is requested before
\* page 0 has completed; and when a request of a batch has been issued, every
\* request of the earlier batches has completed and no request of a later
\* batch has been issued.
C24_BoundedParallelism ==
  (op = "getAll" /\ options.parallelLimit >= 1)
  => /\ Cardinality(PagesInFlight) <= options.parallelLimit
     /\ ~IsSettled(reqs[1]) => Len(reqs) = 1
     /\ \A k \in 2..Len(reqs) :
          reqs[k].st # "idle"
          => /\ IsSettled(reqs[1])
             /\ \A j \in 2..Len(reqs) :
                  /\ PageBatch(j) < PageBatch(k) => IsSettled(reqs[j])
                  /\ PageBatch(j) = PageBatch(k) => reqs[j].st # "idle"

\* With parallelLimit 2 and four pages, pages 1 and 2 are in flight and page
\* 3 is not requested yet.
C24_Witness ==
  /\ op = "getAll"
  /\ options.parallelLimit = 2
  /\ Len(reqs) = 4
  /\ PagesInFlight = {2, 3}
  /\ reqs[4].st = "idle"

\* C25: the k-th page fetch of paginate is made only when the consumer has
\* asked for more items than the pages before it hold; while the generator is
\* suspended at a yield, or after the consumer has stopped, no page fetch is
\* pending, and a consumer that stopped after m >= 1 items has caused no fetch
\* beyond the page that holds the m-th item.
C25_FetchOnDemand ==
  op = "paginate"
  => LET n == Len(reqs)
     IN /\ \A k \in 1..n : batch.asked > Len(ConcatResults(SubSeq(reqs, 1, k - 1)))
        /\ pc \in {"suspended", "closed"} => \A k \in 1..n : reqs[k].st # "pending"
        /\ pc = "closed"
             => /\ batch.asked = Len(acc)
                /\ Len(acc) = 0 => n = 0
                /\ Len(acc) >= 1
                     => /\ Len(ConcatResults(SubSeq(reqs, 1, n - 1))) < Len(acc)
                        /\ Len(acc) <= Len(ConcatResults(reqs))

\* The consumer stopped after the second and last item of the first page,
\* whose next indicator announces another page: that page was never fetched.
C25_Witness ==
  /\ op = "paginate"
  /\ pc = "closed"
  /\ Len(reqs) = 1
  /\ acc = <<1, 2>>
  /\ batch.buffer = <<>>
  /\ ~IsNull(reqs[1].value[1].v.next)

\* C26: at most one attempt of a vintraceFetch call is in flight, and it is the
\* current one; while attempt k (0-based) is in flight, the k earlier attempts
\* have completed and the k backoff waits after them have elapsed; during a
\* backoff wait no attempt is in flight.
C26_SequentialAttempts ==
  op = "vintraceFetch"
  => /\ Cardinality(inFlight) <= 1
     /\ inFlight \subseteq {attempt}
     /\ timers \subseteq inFlight
     /\ inFlight # {}
          => pc = "fetching" /\ Len(history) = attempt /\ Len(delays) = attempt
     /\ pc = "waiting"
          => inFlight = {} /\ Len(history) = attempt + 1 /\ Len(delays) = attempt + 1

\* The third attempt is in flight after two completed attempts and two waits.
C26_Witness ==
  /\ op = "vintraceFetch"
  /\ pc = "fetching"
  /\ inFlight = {2}
  /\ Len(history) = 2
  /\ Len(delays) = 2

\* An attempt after which the exponential backoff applies: a timeout, a status
\* of {408, 500, 502, 503, 504}, or a 429 without a usable retry-after header.
BackoffCase(h) ==
  \/ h.kind = "abort"
  \/ h.kind = "response" /\ h.status \in {408, 500, 502, 503, 504}
  \/ h.kind = "response" /\ h.status = 429 /\ ~IsDefined(h.retryAfter)

\* C27: the wait after the k-th attempt (index k - 1) of a call, when that
\* attempt is a backoff case and is retried, is 1000 * 2^(k - 1) ms, whatever
\* the earlier attempts were.
C27_ExponentialBackoff ==
  op = "vintraceFetch"
  => \A k \in 1..Len(delays) :
       BackoffCase(history[k]) => delays[k] = 1000 * Pow2(k - 1)

\* A timeout then a first 503: the waits are 1 s and 2 s.
C27_Witness ==
  /\ op = "vintraceFetch"
  /\ Len(history) >= 2
  /\ history[1].kind = "abort"
  /\ history[2].kind = "response" /\ history[2].status = 503
  /\ delays = <<1000, 2000>>

\* C28 (as claimed): the retryAfter of a returned RateLimit error is defined.
C28_RetryAfterDefined ==
  Returned("VintraceRateLimitError", 429) => IsDefined(result[2].retryAfter)

\* C28 (amended): the retryAfter of a returned RateLimit error is the integer
\* that the retry-after header of the final 429 response starts with, and is
\* undefined when that header is absent, empty or does not start with an
\* integer.
C28_RetryAfterFromHeader ==
  Returned("VintraceRateLimitError", 429)
  => LET header == LastAttempt.endHeader
     IN /\ header \in RetryAfterHeaders
        /\ result[2].retryAfter =
             (IF header = Val(<<"0">>) THEN Some(0)
              ELSE IF header \in {Val(<<"3">>), Val(<<" ", "3", "s">>)} THEN Some(3)
              ELSE Undefined)

\* A call ends on a 429 without a retry-after header after a retried attempt:
\* the returned error has no retryAfter.
C28_Witness ==
  /\ Returned("VintraceRateLimitError", 429)
  /\ Len(history) = 2
  /\ LastAttempt.endHeader = NoHeader
  /\ result[2].retryAfter = Undefined

\* C29: the AggregateError a batchFetch, batchGet or getMany call returns has
\* at least one child error, and its status and correlationId are those of its
\* first child.
C29_AggregateMirrorsFirstChild ==
  (BatchDone /\ promise = "fulfilled" /\ ~IsNull(result[2]))
  => /\ result[2].kind = "VintraceAggregateError"
     /\ Len(result[2].errors) >= 1
     /\ result[2].status = result[2].errors[1].status
     /\ result[2].correlationId = result[2].errors[1].correlationId

\* An aggregate of a 404 with a correlation id followed by a 500 without one.
C29_Witness ==
  /\ BatchDone
  /\ promise = "fulfilled"
  /\ ~IsNull(result[2])
  /\ Len(result[2].errors) = 2
  /\ result[2].errors[1].status = 404
  /\ result[2].errors[2].status = 500
  /\ IsDefined(result[2].correlationId)
  /\ result[2].status = 404

\* C30 (as claimed): two attempts of one vintraceFetch call carry different
\* correlation-id header values.
C30_IdPerAttempt ==
  op = "vintraceFetch"
  => \A j, k \in 1..Len(history) :
       j # k => history[j].correlationId # history[k].correlationId

\* C30 (amended): every attempt of one vintraceFetch call carries the
\* correlation id generated once at the start of the call, so two attempts of
\* the call carry the same value.
C30_IdPerCall ==
  op = "vintraceFetch"
  => \A k \in 1..Len(history) : history[k].correlationId = call.correlationId

\* Three attempts of one call have been made.
C30_Witness ==
  /\ op = "vintraceFetch"
  /\ Len(history) = 3
  /\ history[1].correlationId = history[3].correlationId
  /\ history[1].kind = "response"
  /\ history[2].kind = "abort"

\* The per-key fetches a batch has gathered so far: all of them once a
\* batchFetch has returned, those before the loop index in a batchGet.
Gathered ==
  IF op = "getMany" THEN (IF pc = "done" THEN reqs ELSE <<>>)
  ELSE SubSeq(reqs, 1, IF cursor < Len(reqs) THEN cursor ELSE Len(reqs))
\* What a settled per-key fetch contributes to the error list.
RECURSIVE ErrorsOf(_)
ErrorsOf(rs) ==
  IF rs = <<>> THEN <<>>
  ELSE LET r == Head(rs)
       IN (IF r.st = "rejected"
             THEN <<[isNull |-> FALSE, kind |-> "VintraceError",
                     message |-> IF IsNull(r.reason) THEN "Unknown error" ELSE r.reason.v,
                     status |-> 0, retryAfter |-> Undefined, body |-> "undefined",
                     correlationId |-> Undefined]>>
           ELSE IF ~IsNull(r.value[2]) THEN <<r.value[2]>>
           ELSE <<>>)
          \o ErrorsOf(Tail(rs))
\* What a settled per-key fetch contributes to the output list.
RECURSIVE ItemsOf(_)
ItemsOf(rs) ==
  IF rs = <<>> THEN <<>>
  ELSE (IF KeyItem(Head(rs)) THEN <<Head(rs).value[1].v>> ELSE <<>>) \o ItemsOf(Tail(rs))

\* C31: the two lists of a per-key batch hold, for the fetches gathered so
\* far and in the order of the keys: a status-0 VintraceError for a fetch that
\* rejected, the returned error for a fetch that returned [null, error], the
\* item for a fetch that returned one, and nothing for [null, null].
C31_Contributions ==
  (op \in {"getMany", "batchGet"} /\ promise # "rejected")
  => /\ errs = ErrorsOf(Gathered)
     /\ acc = ItemsOf(Gathered)

\* A batchGet in its second wave, the first wave having held a rejection and
\* a fetch without content.
C31_Witness ==
  /\ op = "batchGet"
  /\ pc = "awaiting"
  /\ cursor = 2
  /\ reqs[1].st = "rejected"
  /\ reqs[2] = Fulfilled(<<NullV, NullV>>)
  /\ Len(errs) = 1 /\ errs[1].status = 0 /\ errs[1].kind = "VintraceError"
  /\ acc = <<>>

\* A batch that has returned and whose per-key fetches all returned an item.
AllKeysSucceeded == BatchDone /\ \A k \in 1..Len(reqs) : KeyItem(reqs[k])

\* C32 (as claimed): when every per-key fetch succeeds, the output list holds
\* the items in the order in which the fetches completed.
C32_CompletionOrder ==
  AllKeysSucceeded
  => /\ ~IsNull(result[1])
     /\ result[1].v = [j \in 1..Len(order) |-> reqs[order[j]].value[1].v]

\* C32 (amended): when every per-key fetch succeeds, the output list holds the
\* items in the order of the input keys, in whatever order the fetches
\* completed.
C32_InputOrder ==
  AllKeysSucceeded
  => result = <<Val([k \in 1..Len(reqs) |-> reqs[k].value[1].v]), NullV>>

\* Three keys whose fetches completed in the order 3, 1, 2.
C32_Witness ==
  /\ AllKeysSucceeded
  /\ op = "getMany"
  /\ order = <<3, 1, 2>>
  /\ result[1].v = <<1, 2, 3>>

\* The keys of the call's parameter object whose value is of one of the types.
KeysOfType(types) ==
  IF IsNull(call.body) THEN {}
  ELSE {ParamKeys[k] : k \in {j \in 1..MaxParams : call.body.v[j].type \in types}}
\* The value of the call's parameter object under a key.
ParamOf(key) == call.body.v[CHOOSE k \in 1..MaxParams : ParamKeys[k] = key]

\* C33: the URL of a call is baseUrl/organization/api/endpoint; for GET and
\* DELETE the fetch has no body and the query string holds one entry, with
\* String(value), for exactly the keys whose value is neither null nor
\* undefined (and there is no query string without such a key); for POST, PUT
\* and PATCH the URL has no query string and a parameter object is sent as its
\* JSON.
C33_RequestShape ==
  (op = "buildRequest" /\ pc = "built")
  => LET url == call.url.v
         init == call.init.v
         query == url.query
     IN /\ url.path = <<"baseUrl", "/", "organization", "/api/", "endpoint">>
        /\ url.mark <=> query # <<>>
        /\ IF call.method \in {"GET", "DELETE"}
             THEN /\ IsNull(init.body)
                  /\ {query[j].key : j \in 1..Len(query)} = KeysOfType({"number", "string"})
                  /\ Len(query) = Cardinality(KeysOfType({"number", "string"}))
                  /\ \A j \in 1..Len(query) : query[j].value = ParamOf(query[j].key).string
             ELSE /\ query = <<>>
                  /\ IsNull(call.body) <=> IsNull(init.body)
                  /\ ~IsNull(call.body)
                       => LET json == init.body.v
                          IN /\ {json[j].key : j \in 1..Len(json)}
                                  = KeysOfType({"number", "string", "null"})
                             /\ Len(json) = Cardinality(KeysOfType({"number", "string", "null"}))
                             /\ \A j \in 1..Len(json) : json[j].value = ParamOf(json[j].key)

\* A GET with {a: 1, b: 'x', c: null, d: undefined}: the query string is a=1&b=x.
C33_Witness ==
  /\ op = "buildRequest" /\ pc = "built"
  /\ call.method = "GET"
  /\ call.body = Val(<<ParamNumber, ParamString, ParamNull, ParamUndefined>>)
  /\ call.url.v.query = <<[key |-> "a", value |-> "1"], [key |-> "b", value |-> "x"]>>
  /\ IsNull(call.init.v.body)

\* An attempt that a retry can follow: a timeout, a 429 or a retryable status.
RetryCause(h) ==
  \/ h.kind = "abort"
  \/ h.kind = "response" /\ h.status \in {408, 429, 500, 502, 503, 504}

\* C34: whatever mix of timeouts, 429 responses and retryable statuses a call
\* meets, it makes at most maxRetries + 1 network attempts, every attempt but
\* the last is one of those retry causes, and the error of a call that ended on
\* a timeout or on an error response is the one of its last attempt: 'Request
\* timeout' (408) for a timeout, else the status and retryAfter of the last
\* response.
C34_SharedBudget ==
  op = "vintraceFetch"
  => /\ NetworkAttempts <= call.maxRetries + 1
     /\ \A k \in 1..(Len(history) - 1) : RetryCause(history[k])
     /\ (pc = "done" /\ Len(history) >= 1)
          => /\ LastAttempt.kind = "abort"
                  => /\ Returned("VintraceError", 408)
                     /\ result[2].message = "Request timeout"
             /\ (LastAttempt.kind = "response" /\ ~ResponseOk(LastAttempt.status))
                  => /\ promise = "fulfilled"
                     /\ IsNull(result[1]) /\ ~IsNull(result[2])
                     /\ result[2].status = LastAttempt.status
                     /\ result[2].retryAfter = LastAttempt.retryAfter

\* A timeout, then a 429, then a 503 on the last permitted attempt.
C34_Witness ==
  /\ FetchDone
  /\ call.maxRetries = 2
  /\ Len(history) = 3
  /\ history[1].kind = "abort"
  /\ history[2].kind = "response" /\ history[2].status = 429
  /\ history[3].kind = "response" /\ history[3].status = 503
  /\ Returned("VintraceServerError", 503)

\* C35: an attempt whose fetch failed at the network level, other than by the
\* timeout's abort, is the last of its call: no backoff wait follows it, no
\* further attempt is started, and the call has ended at that attempt index.
C35_FailureNotRetried ==
  op = "vintraceFetch"
  => \A k \in 1..Len(history) :
       history[k].kind = "failure"
       => /\ k = Len(history)
          /\ attempt = k - 1
          /\ Len(delays) = k - 1
          /\ timers = {} /\ inFlight = {}
          /\ pc = "done"

\* A failure on the second of three permitted attempts, after a retried 503.
C35_Witness ==
  /\ FetchDone
  /\ call.maxRetries = 2
  /\ Len(history) = 2
  /\ history[1].kind = "response" /\ history[1].status = 503
  /\ history[2].kind = "failure"
  /\ attempt < call.maxRetries

\* C36 (as claimed): a call returns [null, null] only when its final response
\* has status 204.
C36_NullNullOnly204 ==
  (FetchDone /\ promise = "fulfilled" /\ result = <<NullV, NullV>>)
  => /\ Len(history) >= 1
     /\ LastAttempt.kind = "response"
     /\ LastAttempt.status = 204

\* The page requests after the first that returned an error.
FailedPages == {k \in 2..Len(reqs) : reqs[k].st = "fulfilled" /\ PageError(reqs[k])}

\* C37: a getAll that ended on the error of a page of a concurrent batch
\* returns the error of the failed page with the lowest offset, whatever the
\* order of completion, and every request of that batch has completed.
C37_LowestOffsetError ==
  (GetAllDone /\ FailedPages # {})
  => LET k0 == CHOOSE k \in FailedPages : \A j \in FailedPages : k <= j
     IN /\ result = <<NullV, reqs[k0].value[2]>>
        /\ \A j \in 2..Len(reqs) :
             PageBatch(j) = PageBatch(k0) => IsSettled(reqs[j])

\* Pages 1 and 2 of one batch both failed, with different errors; page 2
\* completed first and the error of page 1 is returned.
C37_Witness ==
  /\ GetAllDone
  /\ options.parallelLimit = 2
  /\ FailedPages = {2, 3}
  /\ order = <<1, 3, 2>>
  /\ reqs[2].value[2] # reqs[3].value[2]
  /\ result[2] = reqs[2].value[2]

Next == NextFetch \/ NextBatch \/ NextGetAll \/ NextPaginate \/ NextReport

Spec == Init /\ [][Next]_vars

\* The fallback after the retry loop (fetch.ts line 228) is what was returned.
MaxRetriesExceeded ==
  /\ promise = "fulfilled"
  /\ result = <<NullV, VintraceError("VintraceError", "Max retries exceeded",
                                     0, Undefined, "undefined")>>

\* C39: a call with maxRetries >= 0 never returns the fallback 'Max retries
\* exceeded'; a call with maxRetries < 0 makes no network attempt, and once it
\* has ended, its request validation not having rejected the body, the
\* fallback with status 0 is its result.
C39_Fallback ==
  op = "vintraceFetch"
  => /\ call.maxRetries >= 0 => ~MaxRetriesExceeded
     /\ call.maxRetries < 0
          => /\ NetworkAttempts = 0
             /\ (pc = "done" /\ call.parsed # "ZodError" /\ call.parsed # "OtherError")
                  => MaxRetriesExceeded

\* A call with maxRetries -1 has returned the fallback.
C39_Witness ==
  /\ FetchDone
  /\ call.maxRetries = 0 - 1
  /\ history = <<>>
  /\ MaxRetriesExceeded
  /\ result[2].status = 0

\* C40: a call has at most one armed timeout timer, that of the current
\* attempt, and only while that attempt's fetch is pending: none is armed
\* during a backoff wait, at the head of the loop, or once the call has
\* returned, so an attempt is only ever aborted by its own timer.
C40_OneTimer ==
  op = "vintraceFetch"
  => /\ Cardinality(timers) <= 1
     /\ timers \subseteq {attempt}
     /\ timers # {} => pc = "fetching" /\ Len(history) = attempt
     /\ pc \in {"waiting", "loop", "done"} => timers = {}
     /\ \A i \in 1..Len(history) : history[i].kind = "abort" => i - 1 \notin timers

\* The second attempt is pending with its own timer armed, after the first
\* one was aborted by its timer and the backoff wait elapsed.
C40_Witness ==
  /\ op = "vintraceFetch" /\ pc = "fetching"
  /\ attempt = 1
  /\ timers = {1}
  /\ Len(history) = 1 /\ history[1].kind = "abort"
  /\ Len(delays) = 1

\* C38 (as claimed): a getAll or batchGet call that has not returned can always
\* take a step that changes something (issue a fetch, receive an outcome,
\* advance its loop or return), so that it ends once its fetches have ended.
C38_LoopAdvances ==
  (op \in {"getAll", "batchGet"} /\ pc # "done") => ENABLED <<Next>>_vars

\* The construction of the request alone, for every method and body.
SpecRequest == InitRequest /\ [][NextRequest]_vars
====
